---- MODULE Spec2Model ----
(***************************************************************************)
(* A model of the disk-maintenance backend (src/backend/main.py):          *)
(* the DiskScanner (synchronous and streaming walks, folder-size           *)
(* propagation), the scan registry and the HTTP handlers around it, the    *)
(* SSE responder of /api/scan/stream, and the FolderComparator.            *)
(*                                                                         *)
(* Strings are sequences of one-character strings, so that os.path.join,   *)
(* os.path.dirname, str.count, str.lower and the substring test of the     *)
(* ignore list are computed as the library computes them (POSIX flavour:   *)
(* os.sep = "/").                                                          *)
(***************************************************************************)
EXTENDS Naturals, Integers, Sequences, FiniteSets, TLC

(***************************************************************************)
(* Bounds of the model.                                                    *)
(***************************************************************************)
\* directories below "/" and regular files, together, in a file system of the
\* scanner's family
MaxEntries == 3
\* file sizes are drawn from 1..MaxSize
MaxSize == 2
\* scan identifiers given out in one run of the API
MaxScans == 2
\* regular files in each of the two trees of the comparator's family
MaxCmpFiles == 2
\* st_mtime of the two files handed to _compare_files is drawn from 0..MaxMtime
MaxMtime == 3

MaxLeaves == 2

MaxSnapshots == 1
\* the identifiers uuid.uuid4() gives out in one run of the snapshot endpoints
MaxIds == 4
\* the regular files of the most crowded directory of the crowded family
MaxFiles == 26

(***************************************************************************)
(* Strings.                                                                *)
(***************************************************************************)
sep == "/"

UpperChars == <<"A","B","C","D","E","F","G","H","I","J","K","L","M",
                "N","O","P","Q","R","S","T","U","V","W","X","Y","Z">>

LowerChars == <<"a","b","c","d","e","f","g","h","i","j","k","l","m",
                "n","o","p","q","r","s","t","u","v","w","x","y","z">>

\* str.lower() on one character
LowerChar(c) ==
    IF \E i \in 1..26 : UpperChars[i] = c
    THEN LowerChars[CHOOSE i \in 1..26 : UpperChars[i] = c]
    ELSE c

\* str.lower()
lower(s) == [i \in 1..Len(s) |-> LowerChar(s[i])]

\* str.count(c) for a one-character c
count(s, c) == Cardinality({i \in 1..Len(s) : s[i] = c})

\* the Python test "sub in s"
contains(s, sub) ==
    \E i \in 0..(Len(s) - Len(sub)) :
        \A j \in 1..Len(sub) : s[i + j] = sub[j]

\* str.rfind(c) + 1: the index just after the last c, 0 when there is none
rfind1(s, c) ==
    IF \E i \in 1..Len(s) : s[i] = c
    THEN CHOOSE i \in 1..Len(s) : s[i] = c /\ \A j \in (i+1)..Len(s) : s[j] # c
    ELSE 0

\* str.rstrip(c)
RECURSIVE rstrip(_, _)
rstrip(s, c) ==
    IF s # <<>> /\ s[Len(s)] = c THEN rstrip(SubSeq(s, 1, Len(s) - 1), c) ELSE s

\* posixpath.join(a, b)
join(a, b) ==
    IF b # <<>> /\ b[1] = sep THEN b
    ELSE IF a = <<>> \/ a[Len(a)] = sep THEN a \o b
    ELSE a \o <<sep>> \o b

\* posixpath.dirname(p)
dirname(p) ==
    LET head == SubSeq(p, 1, rfind1(p, sep))
    IN  IF head # <<>> /\ \E i \in 1..Len(head) : head[i] # sep
        THEN rstrip(head, sep)
        ELSE head

\* posixpath.basename(p)
basename(p) == SubSeq(p, rfind1(p, sep) + 1, Len(p))

(***************************************************************************)
(* The ignore list.                                                        *)
(***************************************************************************)
IGNORE_PATHS == <<
    <<"C",":","\\","W","i","n","d","o","w","s">>,
    <<"C",":","\\","P","r","o","g","r","a","m"," ","F","i","l","e","s">>,
    <<"C",":","\\","P","r","o","g","r","a","m"," ","F","i","l","e","s"," ",
      "(","x","8","6",")">>,
    <<"C",":","\\","P","r","o","g","r","a","m","D","a","t","a">>,
    <<"$","R","e","c","y","c","l","e",".","B","i","n">>,
    <<"S","y","s","t","e","m"," ","V","o","l","u","m","e"," ",
      "I","n","f","o","r","m","a","t","i","o","n">> >>

\* should_ignore without the lowercasing of the path
should_ignore_CaseSensitive(path) ==
    \E k \in 1..Len(IGNORE_PATHS) : contains(path, lower(IGNORE_PATHS[k]))

\* DiskScanner.should_ignore
should_ignore(path) ==
    LET path_lower == lower(path)
    IN  \E k \in 1..Len(IGNORE_PATHS) : contains(path_lower, lower(IGNORE_PATHS[k]))

(***************************************************************************)
(* The file system the walks read.  A directory is named by its components *)
(* below "/"; a regular file by its directory and its name.  stat of a     *)
(* file either fails (ok = FALSE) or gives its size.                       *)
(***************************************************************************)
NameD == <<"d">>

NameA == <<"a">>

\* a directory the ignore list matches after lowercasing
RecycleDir == <<"$","R","E","C","Y","C","L","E",".","B","I","N">>

\* a regular file whose own name holds an ignore-list substring
RecycleFile == <<"$","R","e","c","y","c","l","e",".","B","i","n",".","x">>

DirNames == {NameD, RecycleDir}

FileNames == {NameA, RecycleFile}

\* the names of the files of a crowded directory: f00, f01, ...
Digits == <<"0", "1", "2", "3", "4", "5", "6", "7", "8", "9">>

CrowdName(i) == <<"f", Digits[((i \div 10) % 10) + 1], Digits[(i % 10) + 1]>>

CrowdNames == [i \in 1..MaxFiles |-> CrowdName(i)]

\* the order in which a directory lists its entries
NameOrder == <<NameA, NameD, RecycleDir, RecycleFile>> \o CrowdNames

\* the directory trees with at most n directories below "/"
RECURSIVE TreesUpTo(_)
TreesUpTo(n) ==
    IF n = 0 THEN {{<<>>}}
    ELSE LET smaller == TreesUpTo(n - 1)
         IN  smaller \cup UNION {{T \cup {Append(d, name)} : d \in T, name \in DirNames} :
                                 T \in smaller}

DirTrees == TreesUpTo(MaxEntries)

\* what os.stat gives for a file: it fails, or it gives st_size, st_mtime and st_atime
\* (of two files the larger is the one modified later and read earlier)
FileAttrs ==
    {[ok |-> FALSE, size |-> 0, st_mtime |-> 0, st_atime |-> 0]}
    \cup {[ok |-> TRUE, size |-> n, st_mtime |-> 2 * n, st_atime |-> 2 * (MaxSize + 1 - n)] :
              n \in 1..MaxSize}

\* the file systems over the directories T; denied: the directories that cannot be listed
FileSystems(T) ==
    UNION {{[dirs |-> T, files |-> f, denied |-> {}] : f \in [S -> FileAttrs]} :
           S \in {X \in SUBSET (T \X FileNames) :
                     Cardinality(X) + Cardinality(T) - 1 <= MaxEntries}}

\* the absolute path of a directory, as a caller without trailing separator writes it
RECURSIVE PathOf(_)
PathOf(comps) ==
    IF comps = <<>> THEN <<sep>>
    ELSE join(PathOf(SubSeq(comps, 1, Len(comps) - 1)), comps[Len(comps)])

\* the components a path string resolves to (empty components dropped)
RECURSIVE Split(_)
Split(p) ==
    IF p = <<>> THEN <<>>
    ELSE LET stripped == rstrip(p, sep)
             i == rfind1(stripped, sep)
         IN  IF stripped = <<>> THEN <<>>
             ELSE Append(Split(SubSeq(stripped, 1, i)), SubSeq(stripped, i + 1, Len(stripped)))

\* an isdir that takes a regular file for a directory as well
isdir_AnyEntry(f, p) ==
    \/ Split(p) \in f.dirs
    \/ \E k \in DOMAIN f.files : Append(k[1], k[2]) = Split(p)

\* os.path.exists(p) and os.path.isdir(p)
isdir(f, p) == Split(p) \in f.dirs

\* the root paths a caller may pass for a directory: with and without a trailing separator
RootPathsOf(comps) ==
    {PathOf(comps)} \cup (IF comps = <<>> THEN {} ELSE {PathOf(comps) \o <<sep>>})

\* os.scandir as os.walk reads it: the sub-directories and the other entries
ListDirs(f, comps) == SelectSeq(NameOrder, LAMBDA n : Append(comps, n) \in f.dirs)

ListFiles(f, comps) == SelectSeq(NameOrder, LAMBDA n : <<comps, n>> \in DOMAIN f.files)

(***************************************************************************)
(* DiskScanner.                                                            *)
(***************************************************************************)
NewFolder(path) ==
    [path |-> path, total_size |-> 0, file_count |-> 0,
     last_modified |-> <<>>, last_accessed |-> <<>>]

\* datetime.fromtimestamp(st): st in half microseconds, a datetime holds whole ones
fromtimestamp(st) == st \div 2

\* datetime.isoformat() and datetime.fromisoformat() on a datetime; <<>> stands for None
isoformat_(t) == <<t>>

fromisoformat(str) == str[1]

\* self.folders[path] = {...} when path is not yet a key
InsertFolder(folders, path) ==
    IF path \in DOMAIN folders.rec THEN folders
    ELSE [keys |-> Append(folders.keys, path),
          rec |-> folders.rec @@ (path :> NewFolder(path))]

\* DiskScanner._update_folder_stats
_update_folder_stats(folders, folder_path, stat) ==
    [folders EXCEPT !.rec[folder_path].total_size = @ + stat.size,
                    !.rec[folder_path].file_count = @ + 1,
                    !.rec[folder_path].last_modified =
                        IF @ = <<>> \/ fromtimestamp(stat.st_mtime) > fromisoformat(@)
                        THEN isoformat_(fromtimestamp(stat.st_mtime)) ELSE @,
                    !.rec[folder_path].last_accessed =
                        IF @ = <<>> \/ fromtimestamp(stat.st_atime) > fromisoformat(@)
                        THEN isoformat_(fromtimestamp(stat.st_atime)) ELSE @]

\* a file loop that counts a file whose stat failed into its folder
RECURSIVE ScanFiles_CountsFailed(_, _, _, _, _)
ScanFiles_CountsFailed(st, f, root, comps, names) ==
    IF names = <<>> THEN st
    ELSE LET filename == Head(names)
             file_path == join(root, filename)
             stat == f.files[<<comps, filename>>]
             next ==
                 IF stat.ok
                 THEN [files |-> Append(st.files,
                                        [path |-> file_path,
                                         size_bytes |-> stat.size,
                                         parent_dir |-> root]),
                       folders |-> _update_folder_stats(st.folders, root, stat),
                       file_count |-> st.file_count + 1,
                       total_bytes |-> st.total_bytes + stat.size]
                 ELSE [st EXCEPT !.folders = _update_folder_stats(st.folders, root, stat)]
         IN  ScanFiles_CountsFailed(next, f, root, comps, Tail(names))

\* the "for filename in files" loop of one directory: st = [files, folders, file_count, total_bytes]
RECURSIVE ScanFiles(_, _, _, _, _)
ScanFiles(st, f, root, comps, names) ==
    IF names = <<>> THEN st
    ELSE LET filename == Head(names)
             file_path == join(root, filename)
             stat == f.files[<<comps, filename>>]
             next ==
                 IF stat.ok
                 THEN [files |-> Append(st.files,
                                        [path |-> file_path,
                                         size_bytes |-> stat.size,
                                         parent_dir |-> root]),
                       folders |-> _update_folder_stats(st.folders, root, stat),
                       file_count |-> st.file_count + 1,
                       total_bytes |-> st.total_bytes + stat.size]
                 ELSE st
         IN  ScanFiles(next, f, root, comps, Tail(names))

\* dirs[:] = [d for d in dirs if not self.should_ignore(os.path.join(root, d))]
KeptDirs(f, root, comps) ==
    SelectSeq(ListDirs(f, comps), LAMBDA d : ~should_ignore(join(root, d)))

\* the body of the os.walk loop for one directory (root, dirs, files)
VisitDir(st, f, root, comps) ==
    ScanFiles([st EXCEPT !.folders = InsertFolder(st.folders, root)],
              f, root, comps, ListFiles(f, comps))

\* os.walk(topdown=True): the directories still to visit after (root, comps),
\* the kept sub-directories first, in listing order
WalkPush(walk, f, root, comps) ==
    LET dirs == KeptDirs(f, root, comps)
    IN  [i \in 1..Len(dirs) |->
            [root |-> join(root, dirs[i]), comps |-> Append(comps, dirs[i])]] \o walk

\* the state before the walk: the root folder is pre-inserted
ScanStart(root_path_) ==
    [files |-> <<>>,
     folders |-> InsertFolder([keys |-> <<>>, rec |-> <<>>], root_path_),
     file_count |-> 0,
     total_bytes |-> 0]

\* the whole os.walk loop; os.walk passes over a directory it cannot list without
\* yielding it
RECURSIVE WalkAll(_, _, _)
WalkAll(st, f, walk) ==
    IF walk = <<>> THEN st
    ELSE IF Head(walk).comps \in f.denied THEN WalkAll(st, f, Tail(walk))
    ELSE WalkAll(VisitDir(st, f, Head(walk).root, Head(walk).comps), f,
                 WalkPush(Tail(walk), f, Head(walk).root, Head(walk).comps))

\* sorted(self.folders.keys(), key=lambda p: p.count(os.sep), reverse=True): a stable sort
RECURSIVE SortedByDepth(_, _)
SortedByDepth(keys, d) ==
    SelectSeq(keys, LAMBDA p : count(p, sep) = d)
        \o (IF d = 0 THEN <<>> ELSE SortedByDepth(keys, d - 1))

MaxDepthOf(keys) ==
    IF keys = <<>> THEN 0
    ELSE CHOOSE d \in {count(keys[i], sep) : i \in 1..Len(keys)} :
            \A i \in 1..Len(keys) : count(keys[i], sep) <= d

\* the loop of _propagate_folder_sizes over the sorted folder paths
RECURSIVE PropagateLoop(_, _)
PropagateLoop(rec, sorted_folders) ==
    IF sorted_folders = <<>> THEN rec
    ELSE LET folder_path == Head(sorted_folders)
             parent == dirname(folder_path)
             next ==
                 IF parent \in DOMAIN rec /\ parent # folder_path
                 THEN LET child == rec[folder_path]
                      IN  [rec EXCEPT
                              ![parent].total_size = @ + child.total_size,
                              ![parent].file_count = @ + child.file_count,
                              ![parent].last_modified =
                                  IF /\ child.last_modified # <<>>
                                     /\ (@ = <<>> \/ child.last_modified[1] > @[1])
                                  THEN child.last_modified ELSE @,
                              ![parent].last_accessed =
                                  IF /\ child.last_accessed # <<>>
                                     /\ (@ = <<>> \/ child.last_accessed[1] > @[1])
                                  THEN child.last_accessed ELSE @]
                 ELSE rec
         IN  PropagateLoop(next, Tail(sorted_folders))

\* DiskScanner._propagate_folder_sizes
_propagate_folder_sizes(folders) ==
    [folders EXCEPT !.rec =
        PropagateLoop(folders.rec, SortedByDepth(folders.keys, MaxDepthOf(folders.keys)))]

\* DiskScanner.scan: (files, folders)
scan(f, root_path_) ==
    LET st == WalkAll(ScanStart(root_path_), f,
                      <<[root |-> root_path_, comps |-> Split(root_path_)]>>)
    IN  [files |-> st.files, folders |-> _propagate_folder_sizes(st.folders)]

(***************************************************************************)
(* State.                                                                  *)
(***************************************************************************)
VARIABLES
    fs,              \* the file system the process reads
    root_path,       \* DiskScanner.root_path of the scanner at work
    mode,            \* "none", "sync" (scan) or "async" (scan_async)
    sc_pc,           \* the scanner: "idle", "created", "walking", "done"
    walk,            \* os.walk: the directories still to visit
    files,           \* DiskScanner.files
    folders,         \* DiskScanner.folders
    file_count,      \* scan_async: file_count
    total_bytes,     \* scan_async: total_bytes
    emitted,         \* every progress update passed to progress_callback, in order
    progress_queue,  \* event_generator: progress_queue
    scans,           \* the registry: scans
    next_id,         \* the identifiers uuid.uuid4() has given out
    resp_pc,         \* event_generator: "idle", "get" (in wait_for), "check" (at the yield), "closed"
    stream_id,       \* event_generator: scan_id
    delivered,       \* the SSE frames the client has received, in order
    returned,        \* the scan summaries returned to clients
    last_status,     \* the HTTP status of the last answered request
    snapshots,       \* the rows of the snapshots table, in the order they were added
    last_lookup,     \* the request answered last: "miss" or "hit" for a lookup by scan_id
                     \* that the registry did not or did hold, "none" for any other
    last_path,       \* the request answered last: "valid" when every path it had to
                     \* validate names a directory, "invalid" when one does not, "none"
                     \* when it had no path to validate
    response,        \* the snapshot the last snapshot request was answered with (<<>>:
                     \* it was answered with none)
    saved,           \* by snapshot id, the payloads the save request handed to the
                     \* store, for the snapshots neither updated nor deleted since
    last_snapshot,   \* the snapshot request answered last: "saved", "loaded", "updated",
                     \* "deleted", or what made it fail: "unknown" (no row of that id),
                     \* "conflict" (the row is no comparison), "stale" (a stored path
                     \* is gone); "none" for any other request
    cmp_pc,          \* FolderComparator.compare: "idle", "classify", "assemble", "done"
    source_tree,     \* the tree at source_path
    target_tree,     \* the tree at target_path
    deep_scan,       \* FolderComparator.deep_scan
    source_index,    \* compare: source_index
    target_index,    \* compare: target_index
    todo,            \* compare: the relative paths the running loop has still to visit
    items_by_path,   \* compare: items_by_path
    summary,         \* FolderComparator.summary
    root_items,      \* compare: root_items, as the relative paths of the items
    cf_source,       \* _compare_files: source_info
    cf_target,       \* _compare_files: target_info
    cf_hashes,       \* _compare_files: what _hash_file gives for the two files
    cf_status,       \* _compare_files: the status returned
    an_pc,           \* Analyzer: "idle", "created", then the pass analyze() runs next, "done"
    an_files,        \* Analyzer.files
    an_folders,      \* Analyzer.folders
    findings,        \* Analyzer.findings
    finding_id,      \* Analyzer.finding_id
    ext_called,      \* whether get_extension_summary has returned
    ext_summary      \* what get_extension_summary returned

scanVars == <<mode, sc_pc, walk, files, folders, file_count, total_bytes, emitted, progress_queue>>

\* what the snapshot endpoints leave behind
snapVars == <<response, saved, last_snapshot>>

apiVars == <<scans, next_id, resp_pc, stream_id, delivered, returned, last_status, snapshots,
           last_lookup, last_path, snapVars>>

cmpVars == <<cmp_pc, source_tree, target_tree, deep_scan, source_index, target_index, todo,
             items_by_path, summary, root_items, cf_source, cf_target, cf_hashes, cf_status>>

anVars == <<an_pc, an_files, an_folders, findings, finding_id, ext_called, ext_summary>>

vars == <<fs, root_path, scanVars, apiVars, cmpVars, anVars>>

EmptyFolders == [keys |-> <<>>, rec |-> <<>>]

\* Python's None
None == "None"

\* ComparisonSummary()
ComparisonSummary ==
    [identical |-> 0, modified |-> 0, missing_from_target |-> 0, extra_in_target |-> 0,
     total_source_size |-> 0, total_target_size |-> 0]

\* the registry and the streaming endpoint before any request
ApiIdle ==
    /\ scans = <<>>
    /\ next_id = 0
    /\ resp_pc = "idle"
    /\ stream_id = 0
    /\ delivered = <<>>
    /\ returned = {}
    /\ last_status = 0
    /\ snapshots = <<>>
    /\ last_lookup = "none"
    /\ last_path = "none"
    /\ response = <<>>
    /\ saved = <<>>
    /\ last_snapshot = "none"

\* no scanner at work
ScanIdle ==
    /\ fs = None
    /\ root_path = <<>>
    /\ mode = "none"
    /\ sc_pc = "idle"
    /\ walk = <<>>
    /\ files = <<>>
    /\ folders = EmptyFolders
    /\ file_count = 0
    /\ total_bytes = 0
    /\ emitted = <<>>
    /\ progress_queue = <<>>

\* no Analyzer constructed
AnIdle ==
    /\ an_pc = "idle"
    /\ an_files = <<>>
    /\ an_folders = EmptyFolders
    /\ findings = <<>>
    /\ finding_id = 0
    /\ ext_called = FALSE
    /\ ext_summary = <<>>

\* no comparison under way
CmpIdle ==
    /\ cmp_pc = "idle"
    /\ source_tree = None
    /\ target_tree = None
    /\ deep_scan = FALSE
    /\ source_index = <<>>
    /\ target_index = <<>>
    /\ todo = <<>>
    /\ items_by_path = <<>>
    /\ summary = ComparisonSummary
    /\ root_items = <<>>
    /\ cf_source = None
    /\ cf_target = None
    /\ cf_hashes = None
    /\ cf_status = None

\* scan_async, lines 336-354: progress_percent for the directory just walked
ProgressPercent(root) ==
    LET depth == count(root, sep) - count(root_path, sep)
        p == 20 + depth * 5
    IN  IF p < 95 THEN p ELSE 95

(***************************************************************************)
(* DiskScanner as a process: scan() runs without a suspension point,       *)
(* scan_async() can be suspended after each directory that emits.          *)
(***************************************************************************)
ScanSync ==
    /\ sc_pc = "created"
    /\ mode' = "sync"
    /\ LET result == scan(fs, root_path)
       IN  /\ files' = result.files
           /\ folders' = result.folders
    /\ sc_pc' = "done"
    /\ UNCHANGED <<anVars, cmpVars, fs, root_path, walk, file_count, total_bytes, emitted, progress_queue, apiVars>>

\* scan_async up to the os.walk loop
ScanAsyncStart ==
    /\ sc_pc = "created"
    /\ mode' = "async"
    /\ files' = <<>>
    /\ folders' = InsertFolder(EmptyFolders, root_path)
    /\ file_count' = 0
    /\ total_bytes' = 0
    /\ walk' = <<[root |-> root_path, comps |-> Split(root_path)]>>
    /\ sc_pc' = "walking"
    /\ UNCHANGED <<anVars, cmpVars, fs, root_path, emitted, progress_queue, apiVars>>

\* one iteration of the os.walk loop of scan_async; elapsed: at least one second
\* has passed since the last emission
ScanAsyncVisit ==
    /\ sc_pc = "walking"
    /\ walk # <<>>
    /\ Head(walk).comps \notin fs.denied
    /\ \E elapsed \in BOOLEAN :
        LET root == Head(walk).root
            comps == Head(walk).comps
            st == VisitDir([files |-> files, folders |-> folders,
                            file_count |-> file_count, total_bytes |-> total_bytes],
                           fs, root, comps)
            data == [files_scanned |-> Len(st.files),
                     folders_scanned |-> Len(st.folders.keys),
                     bytes_scanned |-> st.total_bytes,
                     current_path |-> root,
                     progress_percent |-> ProgressPercent(root)]
        IN  /\ files' = st.files
            /\ folders' = st.folders
            /\ file_count' = st.file_count
            /\ total_bytes' = st.total_bytes
            /\ walk' = WalkPush(Tail(walk), fs, root, comps)
            /\ IF st.file_count % 50 = 0 \/ elapsed
               THEN /\ emitted' = Append(emitted, data)
                    /\ progress_queue' = Append(progress_queue, data)
               ELSE UNCHANGED <<emitted, progress_queue>>
    /\ UNCHANGED <<anVars, cmpVars, fs, root_path, mode, sc_pc, apiVars>>

\* a scan_async that returns the folder map as the walk left it
ScanAsyncFinish_NoPropagate ==
    /\ sc_pc = "walking"
    /\ walk = <<>>
    /\ sc_pc' = "done"
    /\ UNCHANGED <<anVars, cmpVars, fs, root_path, mode, walk, files, folders, file_count,
                   total_bytes, emitted, progress_queue, apiVars>>

\* scan_async after the loop: propagate and return
ScanAsyncFinish ==
    /\ sc_pc = "walking"
    /\ walk = <<>>
    /\ folders' = _propagate_folder_sizes(folders)
    /\ sc_pc' = "done"
    /\ UNCHANGED <<anVars, cmpVars, fs, root_path, mode, walk, files, file_count, total_bytes, emitted,
                   progress_queue, apiVars>>

InitScan ==
    /\ \E T \in DirTrees : fs \in FileSystems(T)
    /\ root_path \in UNION {RootPathsOf(d) : d \in fs.dirs}
    /\ mode = "none"
    /\ sc_pc = "created"
    /\ walk = <<>>
    /\ files = <<>>
    /\ folders = EmptyFolders
    /\ file_count = 0
    /\ total_bytes = 0
    /\ emitted = <<>>
    /\ progress_queue = <<>>
    /\ ApiIdle
    /\ AnIdle
    /\ CmpIdle

NextScan == ScanSync \/ ScanAsyncStart \/ ScanAsyncVisit \/ ScanAsyncFinish

SpecScan == InitScan /\ [][NextScan]_vars

(***************************************************************************)
(* The scanner on a tree with a directory that cannot be listed.           *)
(***************************************************************************)
\* the file systems over the directories T in which one directory cannot be listed
DeniedFileSystems(T) ==
    UNION {{[f EXCEPT !.denied = {d}] : d \in T} : f \in FileSystems(T)}

\* os.walk in scan_async: scandir fails for the next directory, which is passed over
\* without being yielded
WalkSkipDenied ==
    /\ sc_pc = "walking"
    /\ walk # <<>>
    /\ Head(walk).comps \in fs.denied
    /\ walk' = Tail(walk)
    /\ UNCHANGED <<anVars, cmpVars, fs, root_path, mode, sc_pc, files, folders, file_count,
                   total_bytes, emitted, progress_queue, apiVars>>

InitScanDenied ==
    /\ \E T \in TreesUpTo(MaxEntries - 1) : fs \in DeniedFileSystems(T)
    /\ root_path \in UNION {RootPathsOf(d) : d \in fs.dirs}
    /\ mode = "none"
    /\ sc_pc = "created"
    /\ walk = <<>>
    /\ files = <<>>
    /\ folders = EmptyFolders
    /\ file_count = 0
    /\ total_bytes = 0
    /\ emitted = <<>>
    /\ progress_queue = <<>>
    /\ ApiIdle
    /\ AnIdle
    /\ CmpIdle

NextScanDenied == NextScan \/ WalkSkipDenied

SpecScanDenied == InitScanDenied /\ [][NextScanDenied]_vars

(***************************************************************************)
(* The streaming scanner on crowded directories: "/" and its directory d   *)
(* each hold no file or about twenty-five, fifty or so together.           *)
(***************************************************************************)
\* how many files a directory of the crowded family holds
CrowdCounts == {0, MaxFiles - 2, MaxFiles - 1, MaxFiles}

\* the file system in which "/" holds the first k crowd names and d the first m
Crowded(k, m) ==
    [dirs |-> {<<>>, <<NameD>>},
     files |-> [j \in {<<(<<>>), CrowdNames[i]>> : i \in 1..k}
                        \cup {<<(<<NameD>>), CrowdNames[i]>> : i \in 1..m} |->
                   [ok |-> TRUE, size |-> 1, st_mtime |-> 2, st_atime |-> 2]],
     denied |-> {}]

CrowdedFileSystems == {Crowded(k, m) : k \in CrowdCounts, m \in CrowdCounts}

InitProgress ==
    /\ fs \in CrowdedFileSystems
    /\ root_path \in UNION {RootPathsOf(d) : d \in fs.dirs}
    /\ mode = "none"
    /\ sc_pc = "created"
    /\ walk = <<>>
    /\ files = <<>>
    /\ folders = EmptyFolders
    /\ file_count = 0
    /\ total_bytes = 0
    /\ emitted = <<>>
    /\ progress_queue = <<>>
    /\ ApiIdle
    /\ AnIdle
    /\ CmpIdle

NextProgress == ScanAsyncStart \/ ScanAsyncVisit \/ ScanAsyncFinish

SpecProgress == InitProgress /\ [][NextProgress]_vars

(***************************************************************************)
(* Analyzer.  Sizes are counted in units of 1 KiB; a folder's last_modified *)
(* and last_accessed are held as the whole days between that instant and   *)
(* datetime.now(), which is all the passes read of them: <<days>>, and <<>> *)
(* for None, the value of a folder that has no timestamp.                   *)
(***************************************************************************)
MiB == 1024

GiB == 1024 * MiB

LARGE_FOLDER_THRESHOLD == 1 * GiB

OLD_DAYS_THRESHOLD == 365

RECENT_DAYS_THRESHOLD == 7

TOP_N_LARGE == 20

CACHE_FOLDER_PATTERNS == <<
    <<"n","o","d","e","_","m","o","d","u","l","e","s">>,
    <<".","c","a","c","h","e">>,
    <<"_","_","p","y","c","a","c","h","e","_","_">>,
    <<"d","i","s","t">>,
    <<"b","u","i","l","d">>,
    <<"o","u","t">>,
    <<"t","m","p">>,
    <<"t","e","m","p">>,
    <<".","t","m","p">>,
    <<".","t","e","m","p">>,
    <<"c","a","c","h","e">>,
    <<"C","a","c","h","e">>,
    <<".","g","i","t">>,
    <<".","v","e","n","v">>,
    <<"v","e","n","v">>,
    <<"e","n","v">>,
    <<".","e","n","v">>,
    <<".","n","e","x","t">>,
    <<".","n","u","x","t">>,
    <<"t","a","r","g","e","t">>,
    <<"b","i","n">>,
    <<"o","b","j">> >>

\* the concatenation of a list of lists
RECURSIVE ConcatAll(_)
ConcatAll(lists) == IF lists = <<>> THEN <<>> ELSE Head(lists) \o ConcatAll(Tail(lists))

\* list.sort(key=..., reverse=True), key[i] being the key of list[i]: descending and
\* stable
SortedDescending(list, key) ==
    LET pos(i) == Cardinality({j \in 1..Len(list) : key[j] > key[i]})
                  + Cardinality({j \in 1..i : key[j] = key[i]})
    IN  [k \in 1..Len(list) |-> list[CHOOSE i \in 1..Len(list) : pos(i) = k]]

\* the distinct values of a list, in the order of their first appearance (the keys
\* of a dict filled in that order)
FirstAppearances(list) ==
    ConcatAll([i \in 1..Len(list) |->
                  IF \E j \in 1..(i - 1) : list[j] = list[i] THEN <<>> ELSE <<list[i]>>])

\* self.folders.items()
FolderItems_(folders_) ==
    [i \in 1..Len(folders_.keys) |->
        [path |-> folders_.keys[i], info |-> folders_.rec[folders_.keys[i]]]]

\* an emission that gives every finding of a pass the identifier of the pass's first
RECURSIVE EmitAll_OneIdPerPass(_, _)
EmitAll_OneIdPerPass(st, drafts) ==
    IF drafts = <<>> THEN st
    ELSE EmitAll_OneIdPerPass(
             [findings |-> Append(st.findings,
                                  [id |-> <<"finding-", st.finding_id + 1>>,
                                   category |-> Head(drafts).category,
                                   paths |-> Head(drafts).paths,
                                   total_bytes |-> Head(drafts).total_bytes]),
              finding_id |-> st.finding_id],
             Tail(drafts))

\* Analyzer._next_id and self.findings.append(Finding(...)), for a list of findings to
\* emit; st = [findings, finding_id], each draft = [category, paths, total_bytes]
RECURSIVE EmitAll(_, _)
EmitAll(st, drafts) ==
    IF drafts = <<>> THEN st
    ELSE EmitAll([findings |-> Append(st.findings,
                                      [id |-> <<"finding-", st.finding_id + 1>>,
                                       category |-> Head(drafts).category,
                                       paths |-> Head(drafts).paths,
                                       total_bytes |-> Head(drafts).total_bytes]),
                  finding_id |-> st.finding_id + 1],
                 Tail(drafts))

\* the finding of one folder
FolderDraft(category, item) ==
    [category |-> category, paths |-> <<item.path>>, total_bytes |-> item.info.total_size]

\* a large-folder pass that takes the first TOP_N_LARGE large folders of the folder map
_analyze_large_folders_Unsorted(st, folders_) ==
    LET large_folders == SelectSeq(FolderItems_(folders_),
                                   LAMBDA x : x.info.total_size >= LARGE_FOLDER_THRESHOLD)
        top == SubSeq(large_folders, 1, IF Len(large_folders) < TOP_N_LARGE
                                        THEN Len(large_folders) ELSE TOP_N_LARGE)
    IN  EmitAll(st, [i \in 1..Len(top) |-> FolderDraft("large_folder", top[i])])

\* Analyzer._analyze_large_folders
_analyze_large_folders(st, folders_) ==
    LET large_folders == SelectSeq(FolderItems_(folders_),
                                   LAMBDA x : x.info.total_size >= LARGE_FOLDER_THRESHOLD)
        by_size == SortedDescending(large_folders,
                                    [i \in 1..Len(large_folders) |->
                                        large_folders[i].info.total_size])
        top == SubSeq(by_size, 1, IF Len(by_size) < TOP_N_LARGE THEN Len(by_size)
                                  ELSE TOP_N_LARGE)
    IN  EmitAll(st, [i \in 1..Len(top) |-> FolderDraft("large_folder", top[i])])

\* Analyzer._analyze_old_large_folders: what one folder emits
OldLargeDrafts(item) ==
    IF item.info.total_size < LARGE_FOLDER_THRESHOLD \/ item.info.last_modified = <<>>
    THEN <<>>
    ELSE IF item.info.last_modified[1] > OLD_DAYS_THRESHOLD
         THEN <<FolderDraft("old_large_folder", item)>>
         ELSE IF /\ item.info.last_modified[1] <= RECENT_DAYS_THRESHOLD
                 /\ item.info.total_size >= LARGE_FOLDER_THRESHOLD * 2
              THEN <<FolderDraft("active_large_folder", item)>>
              ELSE <<>>

\* Analyzer._analyze_old_large_folders
_analyze_old_large_folders(st, folders_) ==
    EmitAll(st, ConcatAll([i \in 1..Len(folders_.keys) |->
                              OldLargeDrafts(FolderItems_(folders_)[i])]))

\* a cache/temp test that compares without lowercasing
IsCache_CaseSensitive(path) ==
    \/ \E k \in 1..Len(CACHE_FOLDER_PATTERNS) : CACHE_FOLDER_PATTERNS[k] = basename(path)
    \/ contains(path, <<"\\", "t", "e", "m", "p", "\\">>)
    \/ contains(path, <<"\\", "t", "m", "p", "\\">>)

\* the cache/temp test of _analyze_cache_candidates
IsCache(path) ==
    LET folder_name == lower(basename(path))
    IN  \/ \E k \in 1..Len(CACHE_FOLDER_PATTERNS) : lower(CACHE_FOLDER_PATTERNS[k]) = folder_name
        \/ contains(lower(path), <<"\\", "t", "e", "m", "p", "\\">>)
        \/ contains(lower(path), <<"\\", "t", "m", "p", "\\">>)

\* Analyzer._analyze_cache_candidates
_analyze_cache_candidates(st, folders_) ==
    LET hits == SelectSeq(FolderItems_(folders_),
                          LAMBDA x : IsCache(x.path) /\ x.info.total_size > 0)
    IN  EmitAll(st, [i \in 1..Len(hits) |-> FolderDraft("cache_candidate", hits[i])])

\* abs(size - ref_size) / ref_size <= 0.10, on whole numbers
WithinTenPercent(size, ref_size) ==
    10 * (IF size >= ref_size THEN size - ref_size ELSE ref_size - size) <= ref_size

\* a placement that measures a candidate against the last member of each group
PlaceInGroups_LastMember(groups, cand) ==
    LET last(g) == groups[g][Len(groups[g])]
        fits(g) == /\ last(g).info.total_size > 0
                   /\ WithinTenPercent(cand.info.total_size, last(g).info.total_size)
    IN  IF \E g \in 1..Len(groups) : fits(g)
        THEN LET first == CHOOSE g \in 1..Len(groups) :
                              fits(g) /\ \A h \in 1..(g - 1) : ~fits(h)
             IN  [groups EXCEPT ![first] = Append(@, cand)]
        ELSE Append(groups, <<cand>>)

\* _analyze_duplicate_folder_candidates: one candidate placed into the groups
PlaceInGroups(groups, cand) ==
    LET fits(g) == /\ groups[g][1].info.total_size > 0
                   /\ WithinTenPercent(cand.info.total_size, groups[g][1].info.total_size)
    IN  IF \E g \in 1..Len(groups) : fits(g)
        THEN LET first == CHOOSE g \in 1..Len(groups) :
                              fits(g) /\ \A h \in 1..(g - 1) : ~fits(h)
             IN  [groups EXCEPT ![first] = Append(@, cand)]
        ELSE Append(groups, <<cand>>)

\* _analyze_duplicate_folder_candidates: the groups of the sorted candidates of a name
RECURSIVE GroupsOf(_, _)
GroupsOf(groups, candidates) ==
    IF candidates = <<>> THEN groups
    ELSE GroupsOf(PlaceInGroups(groups, Head(candidates)), Tail(candidates))

RECURSIVE SumTotalSize(_)
SumTotalSize(group) ==
    IF group = <<>> THEN 0 ELSE Head(group).info.total_size + SumTotalSize(Tail(group))

\* _analyze_duplicate_folder_candidates: what the candidates of one name emit
DuplicateFolderDrafts(candidates) ==
    IF Len(candidates) < 2 THEN <<>>
    ELSE LET groups == GroupsOf(<<>>, SortedDescending(candidates,
                                                       [i \in 1..Len(candidates) |->
                                                           candidates[i].info.total_size]))
             reported == SelectSeq(groups, LAMBDA g : Len(g) >= 2)
         IN  [i \in 1..Len(reported) |->
                 [category |-> "duplicate_folder_candidate",
                  paths |-> [k \in 1..Len(reported[i]) |-> reported[i][k].path],
                  total_bytes |-> SumTotalSize(reported[i])
                                  - reported[i][1].info.total_size]]

\* Analyzer._analyze_duplicate_folder_candidates
_analyze_duplicate_folder_candidates(st, folders_) ==
    LET kept == SelectSeq(FolderItems_(folders_),
                          LAMBDA x : /\ lower(basename(x.path)) # <<>>
                                     /\ x.info.total_size > 10 * MiB)
        names == FirstAppearances([i \in 1..Len(kept) |-> lower(basename(kept[i].path))])
        by_name(name) == SelectSeq(kept, LAMBDA x : lower(basename(x.path)) = name)
    IN  EmitAll(st, ConcatAll([n \in 1..Len(names) |->
                                  DuplicateFolderDrafts(by_name(names[n]))]))

\* a duplicate-file pass that also takes the files of exactly 1 MiB
_analyze_duplicate_file_candidates_FromOneMiB(st, files_) ==
    LET kept == SelectSeq(files_, LAMBDA f : f.size_bytes >= MiB)
        keys == FirstAppearances([i \in 1..Len(kept) |->
                                     <<basename(kept[i].path), kept[i].size_bytes>>])
        by_key(key) == SelectSeq(kept, LAMBDA f : <<basename(f.path), f.size_bytes>> = key)
        drafts(key) ==
            IF Len(by_key(key)) >= 2
            THEN <<[category |-> "duplicate_file_candidate",
                    paths |-> [k \in 1..Len(by_key(key)) |-> by_key(key)[k].path],
                    total_bytes |-> key[2] * (Len(by_key(key)) - 1)]>>
            ELSE <<>>
    IN  EmitAll(st, ConcatAll([n \in 1..Len(keys) |-> drafts(keys[n])]))

\* Analyzer._analyze_duplicate_file_candidates
_analyze_duplicate_file_candidates(st, files_) ==
    LET kept == SelectSeq(files_, LAMBDA f : f.size_bytes > MiB)
        keys == FirstAppearances([i \in 1..Len(kept) |->
                                     <<basename(kept[i].path), kept[i].size_bytes>>])
        by_key(key) == SelectSeq(kept, LAMBDA f : <<basename(f.path), f.size_bytes>> = key)
        drafts(key) ==
            IF Len(by_key(key)) >= 2
            THEN <<[category |-> "duplicate_file_candidate",
                    paths |-> [k \in 1..Len(by_key(key)) |-> by_key(key)[k].path],
                    total_bytes |-> key[2] * (Len(by_key(key)) - 1)]>>
            ELSE <<>>
    IN  EmitAll(st, ConcatAll([n \in 1..Len(keys) |-> drafts(keys[n])]))

\* Analyzer._analyze_cold_archive_candidates: what one folder emits
ColdArchiveDrafts(item) ==
    IF item.info.total_size < LARGE_FOLDER_THRESHOLD \/ item.info.last_accessed = <<>>
    THEN <<>>
    ELSE IF item.info.last_accessed[1] > OLD_DAYS_THRESHOLD
         THEN <<FolderDraft("cold_archive_candidate", item)>>
         ELSE <<>>

\* Analyzer._analyze_cold_archive_candidates
_analyze_cold_archive_candidates(st, folders_) ==
    EmitAll(st, ConcatAll([i \in 1..Len(folders_.keys) |->
                              ColdArchiveDrafts(FolderItems_(folders_)[i])]))

\* the "(no extension)" label
NoExtension == <<"(","n","o"," ","e","x","t","e","n","s","i","o","n",")">>

RECURSIVE SumSizeBytes(_)
SumSizeBytes(files_) ==
    IF files_ = <<>> THEN 0 ELSE Head(files_).size_bytes + SumSizeBytes(Tail(files_))

\* an extension summary left in the order the extensions were met
get_extension_summary_Unsorted(files_) ==
    LET ext(f) == IF f.extension = <<>> THEN NoExtension ELSE f.extension
        exts == FirstAppearances([i \in 1..Len(files_) |-> ext(files_[i])])
        of(e) == SelectSeq(files_, LAMBDA f : ext(f) = e)
    IN  [n \in 1..Len(exts) |->
            [extension |-> exts[n],
             file_count |-> Len(of(exts[n])),
             total_bytes |-> SumSizeBytes(of(exts[n]))]]

\* Analyzer.get_extension_summary
get_extension_summary(files_) ==
    LET ext(f) == IF f.extension = <<>> THEN NoExtension ELSE f.extension
        exts == FirstAppearances([i \in 1..Len(files_) |-> ext(files_[i])])
        of(e) == SelectSeq(files_, LAMBDA f : ext(f) = e)
        summaries == [n \in 1..Len(exts) |->
                         [extension |-> exts[n],
                          file_count |-> Len(of(exts[n])),
                          total_bytes |-> SumSizeBytes(of(exts[n]))]]
    IN  SortedDescending(summaries, [n \in 1..Len(summaries) |-> summaries[n].total_bytes])

(***************************************************************************)
(* The Analyzer at work.  It is handed the result of a scan; the scans     *)
(* drawn here are those of a root directory holding one directory per      *)
(* leaf, each holding one leaf directory with at most one file.             *)
(***************************************************************************)
\* os.path.splitext(filename)[1]
splitext1(filename) ==
    LET dot == rfind1(filename, ".")
    IN  IF dot > 0 /\ \E i \in 1..(dot - 1) : filename[i] # "."
        THEN SubSeq(filename, dot, Len(filename))
        ELSE <<>>

\* the leaf directories drawn from: the name of the directory, the name of its file
\* (<<>>: the directory is empty), the file's size and the days since st_mtime and
\* st_atime
LeafKinds == <<
    [folder |-> <<"b">>, file |-> <<"f",".","x">>, size |-> 123 * MiB, mtime_age |-> 30, atime_age |-> 30],
    [folder |-> <<"b">>, file |-> <<"f",".","x">>, size |-> 90 * MiB, mtime_age |-> 30, atime_age |-> 30],
    [folder |-> <<"b">>, file |-> <<"g",".","y">>, size |-> 110 * MiB, mtime_age |-> 30, atime_age |-> 30],
    [folder |-> <<"b">>, file |-> <<"f",".","x">>, size |-> 99 * MiB, mtime_age |-> 30, atime_age |-> 30],
    [folder |-> <<"B">>, file |-> <<"f",".","x">>, size |-> 100 * MiB, mtime_age |-> 30, atime_age |-> 30],
    [folder |-> <<"b">>, file |-> <<"f",".","x">>, size |-> 10 * MiB, mtime_age |-> 30, atime_age |-> 30],
    [folder |-> <<"c">>, file |-> <<"f",".","x">>, size |-> MiB, mtime_age |-> 30, atime_age |-> 30],
    [folder |-> <<"c">>, file |-> <<"f",".","x">>, size |-> MiB + 1, mtime_age |-> 30, atime_age |-> 30],
    [folder |-> <<"e">>, file |-> <<"F",".","x">>, size |-> MiB + 1, mtime_age |-> 30, atime_age |-> 30],
    [folder |-> <<"n","o","d","e","_","m","o","d","u","l","e","s">>, file |-> <<"m",".","J","S">>, size |-> 5 * MiB, mtime_age |-> 30, atime_age |-> 30],
    [folder |-> <<"T","m","p">>, file |-> <<>>, size |-> 0, mtime_age |-> 0, atime_age |-> 0],
    [folder |-> <<"a","\\","T","e","m","p","\\","b">>, file |-> <<"R","E","A","D","M","E">>, size |-> 5 * MiB, mtime_age |-> 30, atime_age |-> 30],
    [folder |-> <<"b","i","g">>, file |-> <<"v",".","b","i","n">>, size |-> GiB, mtime_age |-> 366, atime_age |-> 366],
    [folder |-> <<"b","i","g">>, file |-> <<"v",".","b","i","n">>, size |-> GiB - 1, mtime_age |-> 400, atime_age |-> 400],
    [folder |-> <<"h","o","t">>, file |-> <<"v",".","b","i","n">>, size |-> 2 * GiB, mtime_age |-> 7, atime_age |-> 8],
    [folder |-> <<"h","o","t">>, file |-> <<"w">>, size |-> 2 * GiB, mtime_age |-> 8, atime_age |-> 366],
    [folder |-> <<"o","l","d">>, file |-> <<".","e","n","v">>, size |-> GiB, mtime_age |-> 365, atime_age |-> 365],
    [folder |-> <<"C","a","c","h","e">>, file |-> <<"v",".","b","i","n">>, size |-> GiB + 1, mtime_age |-> 366, atime_age |-> 1] >>

\* a scan with more large folders than TOP_N_LARGE: the sizes differ, or all are equal
WideLeaves(spread) ==
    [i \in 1..(TOP_N_LARGE + 1) |->
        [folder |-> <<"w", LowerChars[i]>>, file |-> <<"v">>,
         size |-> GiB + spread * ((i * 7) % 5), mtime_age |-> 30, atime_age |-> 30]]

AnRoot == <<sep, "r">>

AnParent(i) == join(AnRoot, <<"p", LowerChars[i]>>)

AnLeaf(leaves, i) == join(AnParent(i), leaves[i].folder)

\* the smallest of a set of ages as a timestamp, None when there is none
Latest(ages) == IF ages = {} THEN <<>> ELSE <<CHOOSE a \in ages : \A b \in ages : a <= b>>

\* DiskScanner.scan of the tree of these leaves: files and folders
AnScan(leaves) ==
    LET N == Len(leaves)
        full(i) == leaves[i].file # <<>>
        size(i) == IF full(i) THEN leaves[i].size ELSE 0
        sum[i \in 0..N] == IF i = 0 THEN 0 ELSE sum[i - 1] + size(i)
        folder(path, total, cnt, mages, aages) ==
            [path |-> path, total_size |-> total, file_count |-> cnt,
             last_modified |-> Latest(mages), last_accessed |-> Latest(aages)]
        below(i) == IF full(i) THEN 1 ELSE 0
        mages(i) == IF full(i) THEN {leaves[i].mtime_age} ELSE {}
        aages(i) == IF full(i) THEN {leaves[i].atime_age} ELSE {}
        keys == <<AnRoot>> \o ConcatAll([i \in 1..N |-> <<AnParent(i), AnLeaf(leaves, i)>>])
        rec == (AnRoot :> folder(AnRoot, sum[N], Cardinality({i \in 1..N : full(i)}),
                                 UNION {mages(i) : i \in 1..N},
                                 UNION {aages(i) : i \in 1..N}))
               @@ [q \in {AnParent(i) : i \in 1..N} |->
                      LET i == CHOOSE i \in 1..N : AnParent(i) = q
                      IN  folder(q, size(i), below(i), mages(i), aages(i))]
               @@ [q \in {AnLeaf(leaves, i) : i \in 1..N} |->
                      LET i == CHOOSE i \in 1..N : AnLeaf(leaves, i) = q
                      IN  folder(q, size(i), below(i), mages(i), aages(i))]
    IN  [files |-> ConcatAll([i \in 1..N |->
                     IF full(i)
                     THEN <<[path |-> join(AnLeaf(leaves, i), leaves[i].file),
                             size_bytes |-> leaves[i].size,
                             extension |-> lower(splitext1(leaves[i].file)),
                             parent_dir |-> AnLeaf(leaves, i)]>>
                     ELSE <<>>]),
         folders |-> [keys |-> keys, rec |-> rec]]

\* the leaves of the scans drawn: the lists of up to MaxLeaves leaves of all kinds but
\* the first three, the lists of one leaf more of the first five kinds (folders named
\* "b" of sizes close to one another), and the two wide scans
LeafLists ==
    UNION {[1..n -> {LeafKinds[k] : k \in 4..Len(LeafKinds)}] : n \in 0..MaxLeaves}
    \cup [1..(MaxLeaves + 1) -> {LeafKinds[k] : k \in 1..5}]
    \cup {WideLeaves(0), WideLeaves(1)}

\* what analyze() has built so far
AnState == [findings |-> findings, finding_id |-> finding_id]

\* analyze() moves on from a pass with what the pass built
AnPass(result, then) ==
    /\ findings' = result.findings
    /\ finding_id' = result.finding_id
    /\ an_pc' = then
    /\ UNCHANGED <<an_files, an_folders, ext_called, ext_summary>>
    /\ UNCHANGED <<fs, root_path, scanVars, apiVars, cmpVars>>

\* analyze() is called, once, on the Analyzer just constructed (get_findings,
\* save_snapshot); its first pass
AnalyzeLargeFolders ==
    /\ an_pc = "created"
    /\ ~ext_called
    /\ AnPass(_analyze_large_folders(AnState, an_folders), "old_large")

AnalyzeOldLargeFolders ==
    /\ an_pc = "old_large"
    /\ AnPass(_analyze_old_large_folders(AnState, an_folders), "cache")

AnalyzeCacheCandidates ==
    /\ an_pc = "cache"
    /\ AnPass(_analyze_cache_candidates(AnState, an_folders), "duplicate_folders")

AnalyzeDuplicateFolderCandidates ==
    /\ an_pc = "duplicate_folders"
    /\ AnPass(_analyze_duplicate_folder_candidates(AnState, an_folders), "duplicate_files")

AnalyzeDuplicateFileCandidates ==
    /\ an_pc = "duplicate_files"
    /\ AnPass(_analyze_duplicate_file_candidates(AnState, an_files), "cold")

\* the last pass; analyze() returns self.findings
AnalyzeColdArchiveCandidates ==
    /\ an_pc = "cold"
    /\ AnPass(_analyze_cold_archive_candidates(AnState, an_folders), "done")

\* Analyzer.get_extension_summary, on the Analyzer just constructed
\* (get_extensions_summary) or after analyze() has returned (save_snapshot)
GetExtensionSummary ==
    /\ an_pc \in {"created", "done"}
    /\ ~ext_called
    /\ ext_summary' = get_extension_summary(an_files)
    /\ ext_called' = TRUE
    /\ UNCHANGED <<an_pc, an_files, an_folders, findings, finding_id>>
    /\ UNCHANGED <<fs, root_path, scanVars, apiVars, cmpVars>>

\* Analyzer(files, folders)
InitAnalyze ==
    /\ ScanIdle
    /\ ApiIdle
    /\ CmpIdle
    /\ an_pc = "created"
    /\ \E leaves \in LeafLists :
          /\ an_files = AnScan(leaves).files
          /\ an_folders = AnScan(leaves).folders
    /\ findings = <<>>
    /\ finding_id = 0
    /\ ext_called = FALSE
    /\ ext_summary = <<>>

NextAnalyze ==
    \/ AnalyzeLargeFolders
    \/ AnalyzeOldLargeFolders
    \/ AnalyzeCacheCandidates
    \/ AnalyzeDuplicateFolderCandidates
    \/ AnalyzeDuplicateFileCandidates
    \/ AnalyzeColdArchiveCandidates
    \/ GetExtensionSummary

SpecAnalyze == InitAnalyze /\ [][NextAnalyze]_vars

(***************************************************************************)
(* FolderComparator.                                                       *)
(***************************************************************************)
\* d[k] = v on a Python dict
DictSet(d, k, v) == [x \in DOMAIN d \cup {k} |-> IF x = k THEN v ELSE d[x]]

\* the code points of the characters of the relative paths, for Python's string order
Ord(c) ==
    CASE c = "$" -> 36
      [] c = "." -> 46
      [] c = sep -> 47
      [] \E i \in 1..26 : UpperChars[i] = c -> 64 + (CHOOSE i \in 1..26 : UpperChars[i] = c)
      [] \E i \in 1..26 : LowerChars[i] = c -> 96 + (CHOOSE i \in 1..26 : LowerChars[i] = c)

\* a < b on Python strings
RECURSIVE StrLess(_, _)
StrLess(a, b) ==
    IF b = <<>> THEN FALSE
    ELSE IF a = <<>> THEN TRUE
    ELSE IF Head(a) = Head(b) THEN StrLess(Tail(a), Tail(b))
    ELSE Ord(Head(a)) < Ord(Head(b))

\* sorted(paths)
RECURSIVE sorted(_)
sorted(paths) ==
    IF paths = {} THEN <<>>
    ELSE LET least == CHOOSE x \in paths : \A y \in paths \ {x} : StrLess(x, y)
         IN  <<least>> \o sorted(paths \ {least})

\* os.sep.join(comps)
RECURSIVE JoinAll(_)
JoinAll(comps) ==
    IF comps = <<>> THEN <<>>
    ELSE IF Len(comps) = 1 THEN comps[1]
    ELSE comps[1] \o <<sep>> \o JoinAll(Tail(comps))

\* FolderComparator._get_relative_path: os.path.relpath(full_path, root) for a
\* full_path below root
_get_relative_path(full_path, root) ==
    JoinAll(SubSeq(Split(full_path), Len(Split(root)) + 1, Len(Split(full_path))))

\* a lone surrogate code unit, and what sanitize_string makes of it
Surrogate == "\\ud800"

Replacement == "\\ufffd"

\* sanitize_string: encode with surrogatepass, decode with replace
RECURSIVE sanitize_string(_)
sanitize_string(str) ==
    IF str = <<>> THEN <<>>
    ELSE (IF Head(str) = Surrogate THEN <<Replacement, Replacement, Replacement>>
          ELSE <<Head(str)>>) \o sanitize_string(Tail(str))

\* datetime.fromtimestamp(st_mtime).isoformat(): st_mtime in half microseconds,
\* the string keeps whole microseconds
isoformat(st_mtime) == st_mtime \div 2

\* the record _build_file_index stores for an entry
IndexEntry(full_path, size, st_mtime, is_dir) ==
    [full_path |-> full_path, size |-> size, modified |-> isoformat(st_mtime),
     is_dir |-> is_dir]

\* _build_file_index: the "for filename in files" loop of one directory
RECURSIVE IndexFiles(_, _, _, _, _, _)
IndexFiles(index, f, root_path_, root, comps, names) ==
    IF names = <<>> THEN index
    ELSE LET filename == Head(names)
             file_path == join(root, filename)
             rel_path == sanitize_string(_get_relative_path(file_path, root_path_))
             stat == f.files[<<comps, filename>>]
             next == IF stat.ok
                     THEN DictSet(index, rel_path,
                                  IndexEntry(file_path, stat.size, stat.mtime, FALSE))
                     ELSE index
         IN  IndexFiles(next, f, root_path_, root, comps, Tail(names))

\* _build_file_index: the "for dirname in dirs" loop of one directory
RECURSIVE IndexDirs(_, _, _, _)
IndexDirs(index, root_path_, root, names) ==
    IF names = <<>> THEN index
    ELSE LET dir_path == join(root, Head(names))
             rel_path == sanitize_string(_get_relative_path(dir_path, root_path_))
         IN  IndexDirs(DictSet(index, rel_path, IndexEntry(dir_path, 0, 0, TRUE)),
                       root_path_, root, Tail(names))

\* _build_file_index: the os.walk loop
RECURSIVE IndexWalk(_, _, _, _)
IndexWalk(index, f, root_path_, walk_) ==
    IF walk_ = <<>> THEN index
    ELSE LET root == Head(walk_).root
             comps == Head(walk_).comps
             with_files == IndexFiles(index, f, root_path_, root, comps, ListFiles(f, comps))
             with_dirs == IndexDirs(with_files, root_path_, root, KeptDirs(f, root, comps))
         IN  IndexWalk(with_dirs, f, root_path_, WalkPush(Tail(walk_), f, root, comps))

\* FolderComparator._build_file_index of the tree f found at root_path_
_build_file_index(f, root_path_) ==
    IndexWalk(<<>>, f, root_path_, <<[root |-> root_path_, comps |-> <<>>]>>)

\* _compare_files that takes two missing digests for equal digests
_compare_files_NullIsMatch(source_info, target_info, deep, source_hash, target_hash) ==
    IF source_info.size # target_info.size THEN "modified"
    ELSE IF source_info.modified # target_info.modified
         THEN IF deep /\ source_hash = target_hash THEN "identical" ELSE "modified"
         ELSE IF deep /\ source_hash # None /\ target_hash # None /\ source_hash # target_hash
              THEN "modified" ELSE "identical"

\* _compare_files that takes a missing digest for a mismatch
_compare_files_NullIsMismatch(source_info, target_info, deep, source_hash, target_hash) ==
    IF source_info.size # target_info.size THEN "modified"
    ELSE IF source_info.modified # target_info.modified
         THEN IF deep /\ source_hash = target_hash /\ source_hash # None
              THEN "identical" ELSE "modified"
         ELSE IF deep /\ source_hash # target_hash THEN "modified" ELSE "identical"

\* FolderComparator._compare_files; source_hash and target_hash are what _hash_file
\* returns for the two files when it is called
_compare_files(source_info, target_info, deep, source_hash, target_hash) ==
    IF source_info.size # target_info.size THEN "modified"
    ELSE IF source_info.modified # target_info.modified
         THEN IF deep /\ source_hash # None /\ target_hash # None /\ source_hash = target_hash
              THEN "identical" ELSE "modified"
         ELSE IF deep /\ source_hash # None /\ target_hash # None /\ source_hash # target_hash
              THEN "modified" ELSE "identical"

\* what _hash_file can return: None on a read failure, else a digest
HashValues == {None, "h1", "h2"}

\* compare, first loop: the ComparisonItem of rel_path; children is the list of the
\* children's relative paths, and has_children tells a list from None
Classify(rel_path, sidx, tidx, deep, source_hash, target_hash) ==
    LET in_source == rel_path \in DOMAIN sidx
        in_target == rel_path \in DOMAIN tidx
        is_dir == (in_source /\ sidx[rel_path].is_dir) \/ (in_target /\ tidx[rel_path].is_dir)
        status ==
            IF in_source /\ in_target
            THEN IF is_dir THEN "identical"
                 ELSE _compare_files(sidx[rel_path], tidx[rel_path], deep,
                                     source_hash, target_hash)
            ELSE IF in_source THEN "missing_from_target" ELSE "extra_in_target"
    IN  [name |-> sanitize_string(basename(rel_path)),
         relative_path |-> sanitize_string(rel_path),
         item_type |-> IF is_dir THEN "folder" ELSE "file",
         status |-> status,
         source_size |-> IF in_source THEN sidx[rel_path].size ELSE None,
         target_size |-> IF in_target THEN tidx[rel_path].size ELSE None,
         source_modified |-> IF in_source THEN sidx[rel_path].modified ELSE None,
         target_modified |-> IF in_target THEN tidx[rel_path].modified ELSE None,
         has_children |-> is_dir,
         children |-> <<>>,
         difference_count |-> 0]

\* a summary that counts folder items as well as files
SummaryAdd_CountsFolders(sum, item, source_size, target_size) ==
    [sum EXCEPT ![item.status] = @ + 1,
                !.total_source_size = @ + source_size,
                !.total_target_size = @ + target_size]

\* compare, first loop: the summary after the item of one path; source_size and
\* target_size are source_info.get("size", 0) and target_info.get("size", 0)
SummaryAdd(sum, item, source_size, target_size) ==
    [sum EXCEPT ![item.status] = IF item.item_type = "file" THEN @ + 1 ELSE @,
                !.total_source_size = @ + source_size,
                !.total_target_size = @ + target_size]

\* a second loop that keeps every item among the roots as well
Attach_AlsoRoot(st, rel_path) ==
    LET parent_path == dirname(rel_path)
    IN  IF parent_path # <<>> /\ parent_path \in DOMAIN st.items
           /\ st.items[parent_path].has_children
        THEN [st EXCEPT !.roots = Append(st.roots, rel_path),
                        !.items[parent_path].children = Append(@, rel_path)]
        ELSE [st EXCEPT !.roots = Append(st.roots, rel_path)]

\* compare, second loop: one item put into the tree; st = [items, roots]
Attach(st, rel_path) ==
    LET parent_path == dirname(rel_path)
        item == st.items[rel_path]
    IN  IF parent_path # <<>> /\ parent_path \in DOMAIN st.items
        THEN LET parent == st.items[parent_path]
                 differs == item.status # "identical" \/ item.difference_count > 0
             IN  IF parent.has_children
                 THEN [st EXCEPT
                          !.items[parent_path] =
                              [parent EXCEPT
                                  !.children = Append(parent.children, rel_path),
                                  !.difference_count =
                                      IF differs THEN @ + 1 + item.difference_count ELSE @,
                                  !.status =
                                      IF differs /\ @ = "identical" THEN "modified" ELSE @]]
                 ELSE st
        ELSE [st EXCEPT !.roots = Append(st.roots, rel_path)]

(***************************************************************************)
(* compare() as a process: the two indices, then the loop that classifies  *)
(* each relative path, then the loop that builds the tree.  _hash_file     *)
(* reads the files when _compare_files calls it, so its results are drawn  *)
(* at that step.                                                           *)
(***************************************************************************)
source_path == <<sep, "s">>

target_path == <<sep, "t">>

\* what os.stat gives for a file of a compared tree
CmpFileAttrs(sizes, mtimes) ==
    {[ok |-> TRUE, size |-> n, mtime |-> m] : n \in sizes, m \in mtimes}

\* the directories a compared tree may hold: d and d/d
CmpDirTrees == {{<<>>}, {<<>>, <<NameD>>}, {<<>>, <<NameD>>, <<NameD, NameD>>}}

\* a regular file may be called a or d; d cannot be a file where it is a directory
CmpSlots(T) ==
    {sl \in T \X {NameA, NameD} :
        /\ Append(sl[1], sl[2]) \notin T
        /\ sl[2] = NameD => sl[1] # <<>>}

\* the trees of the comparator's family over the directories T, with files of the
\* given sizes; all their files carry one st_mtime
CmpTrees(T, sizes) ==
    UNION {{[dirs |-> T, files |-> f] : f \in [S -> CmpFileAttrs(sizes, {0})]} :
           S \in {X \in SUBSET CmpSlots(T) : Cardinality(X) <= MaxCmpFiles}}

AllPaths == DOMAIN source_index \cup DOMAIN target_index

\* compare: the two indices are built and the first loop is entered
CompareStart ==
    /\ cmp_pc = "idle"
    /\ source_index' = _build_file_index(source_tree, source_path)
    /\ target_index' = _build_file_index(target_tree, target_path)
    /\ todo' = sorted(DOMAIN source_index' \cup DOMAIN target_index')
    /\ items_by_path' = <<>>
    /\ summary' = ComparisonSummary
    /\ root_items' = <<>>
    /\ cmp_pc' = "classify"
    /\ UNCHANGED <<anVars, fs, root_path, scanVars, apiVars, source_tree, target_tree, deep_scan,
                   cf_source, cf_target, cf_hashes, cf_status>>

\* what the _hash_file calls made for rel_path can return: _compare_files hashes only
\* in deep mode, and only two files of one size
HashDraws(rel_path) ==
    IF /\ deep_scan
       /\ rel_path \in DOMAIN source_index /\ rel_path \in DOMAIN target_index
       /\ ~source_index[rel_path].is_dir /\ ~target_index[rel_path].is_dir
       /\ source_index[rel_path].size = target_index[rel_path].size
    THEN HashValues ELSE {None}

\* compare: one iteration of "for rel_path in sorted(all_paths)"
ClassifyStep ==
    /\ cmp_pc = "classify"
    /\ todo # <<>>
    /\ \E source_hash \in HashDraws(Head(todo)), target_hash \in HashDraws(Head(todo)) :
        LET rel_path == Head(todo)
            item == Classify(rel_path, source_index, target_index, deep_scan,
                             source_hash, target_hash)
        IN  /\ items_by_path' = DictSet(items_by_path, rel_path, item)
            /\ summary' = SummaryAdd(summary, item,
                    IF rel_path \in DOMAIN source_index THEN source_index[rel_path].size ELSE 0,
                    IF rel_path \in DOMAIN target_index THEN target_index[rel_path].size ELSE 0)
    /\ todo' = Tail(todo)
    /\ UNCHANGED <<anVars, fs, root_path, scanVars, apiVars, cmp_pc, source_tree, target_tree, deep_scan,
                   source_index, target_index, root_items, cf_source, cf_target, cf_hashes,
                   cf_status>>

\* compare: the first loop is over, the second is entered
AssembleStart ==
    /\ cmp_pc = "classify"
    /\ todo = <<>>
    /\ todo' = sorted(DOMAIN items_by_path)
    /\ cmp_pc' = "assemble"
    /\ UNCHANGED <<anVars, fs, root_path, scanVars, apiVars, source_tree, target_tree, deep_scan,
                   source_index, target_index, items_by_path, summary, root_items,
                   cf_source, cf_target, cf_hashes, cf_status>>

\* compare: one iteration of "for rel_path, item in sorted(items_by_path.items())"
AssembleStep ==
    /\ cmp_pc = "assemble"
    /\ todo # <<>>
    /\ LET st == Attach([items |-> items_by_path, roots |-> root_items], Head(todo))
       IN  /\ items_by_path' = st.items
           /\ root_items' = st.roots
    /\ todo' = Tail(todo)
    /\ UNCHANGED <<anVars, fs, root_path, scanVars, apiVars, cmp_pc, source_tree, target_tree, deep_scan,
                   source_index, target_index, summary, cf_source, cf_target, cf_hashes,
                   cf_status>>

\* compare: return root_items, self.summary
CompareReturn ==
    /\ cmp_pc = "assemble"
    /\ todo = <<>>
    /\ cmp_pc' = "done"
    /\ UNCHANGED <<anVars, fs, root_path, scanVars, apiVars, source_tree, target_tree, deep_scan,
                   source_index, target_index, todo, items_by_path, summary, root_items,
                   cf_source, cf_target, cf_hashes, cf_status>>

InitCompare ==
    /\ ScanIdle
    /\ ApiIdle
    /\ AnIdle
    /\ cmp_pc = "idle"
    /\ \E T \in CmpDirTrees : source_tree \in CmpTrees(T, {1})
    /\ \E T \in CmpDirTrees : target_tree \in CmpTrees(T, 1..MaxSize)
    /\ deep_scan \in BOOLEAN
    /\ source_index = <<>>
    /\ target_index = <<>>
    /\ todo = <<>>
    /\ items_by_path = <<>>
    /\ summary = ComparisonSummary
    /\ root_items = <<>>
    /\ cf_source = None
    /\ cf_target = None
    /\ cf_hashes = None
    /\ cf_status = None

NextCompare == CompareStart \/ ClassifyStep \/ AssembleStart \/ AssembleStep \/ CompareReturn

SpecCompare == InitCompare /\ [][NextCompare]_vars

(***************************************************************************)
(* _compare_files on its own: one pair of files present in both trees.     *)
(***************************************************************************)
\* the index records of a regular file, over every size and st_mtime of the bounds
FileInfos(full_path) ==
    {IndexEntry(full_path, a.size, a.mtime, FALSE) : a \in CmpFileAttrs(1..MaxSize, 0..MaxMtime)}

CompareFilesCall ==
    /\ cf_status = None
    /\ \E source_hash \in HashValues, target_hash \in HashValues :
        /\ cf_hashes' = <<source_hash, target_hash>>
        /\ cf_status' = _compare_files(cf_source, cf_target, deep_scan, source_hash, target_hash)
    /\ UNCHANGED <<anVars, fs, root_path, scanVars, apiVars, cmp_pc, source_tree, target_tree, deep_scan,
                   source_index, target_index, todo, items_by_path, summary, root_items,
                   cf_source, cf_target>>

InitCompareFiles ==
    /\ ScanIdle
    /\ ApiIdle
    /\ AnIdle
    /\ cmp_pc = "idle"
    /\ source_tree = None
    /\ target_tree = None
    /\ deep_scan \in BOOLEAN
    /\ source_index = <<>>
    /\ target_index = <<>>
    /\ todo = <<>>
    /\ items_by_path = <<>>
    /\ summary = ComparisonSummary
    /\ root_items = <<>>
    /\ cf_source \in FileInfos(join(source_path, NameA))
    /\ cf_target \in FileInfos(join(target_path, NameA))
    /\ cf_hashes = None
    /\ cf_status = None

NextCompareFiles == CompareFilesCall

SpecCompareFiles == InitCompareFiles /\ [][NextCompareFiles]_vars

(***************************************************************************)
(* Claims about the comparator (SpecCompare, SpecCompareFiles).            *)
(***************************************************************************)
\* the elements of a list
Elems(list) == {list[i] : i \in 1..Len(list)}

\* the relative paths of the items found below the item of path p in the result
RECURSIVE Below(_)
Below(p) ==
    UNION {{c} \cup Below(c) : c \in Elems(items_by_path[p].children)}

NonIdenticalBelow(p) == {q \in Below(p) : items_by_path[q].status # "identical"}

FolderItems == {p \in DOMAIN items_by_path : items_by_path[p].item_type = "folder"}

\* C4: in the result of compare(), the difference_count of every folder item is the
\* number of the items below it, at any depth, whose status is not identical.
C4_DifferenceCountIsDescendants ==
    cmp_pc = "done" =>
        \A p \in FolderItems :
            items_by_path[p].difference_count = Cardinality(NonIdenticalBelow(p))

\* what the second loop does establish: difference_count is 0 exactly when every
\* direct child is identical at the time it is appended
C4_DirectChildrenCounted ==
    cmp_pc = "done" =>
        \A p \in FolderItems :
            (\A c \in Elems(items_by_path[p].children) :
                Elems(items_by_path[c].children) = {}) =>
            items_by_path[p].difference_count = Cardinality(NonIdenticalBelow(p))

\* C5: in the result of compare(), a folder item present in both trees is identical
\* if and only if every item below it, at any depth, is identical, and is modified
\* as soon as one item below it is not identical.
C5_StatusReachesAllAncestors ==
    cmp_pc = "done" =>
        \A p \in FolderItems :
            (p \in DOMAIN source_index /\ p \in DOMAIN target_index) =>
                /\ items_by_path[p].status = "identical" <=> NonIdenticalBelow(p) = {}
                /\ NonIdenticalBelow(p) # {} => items_by_path[p].status = "modified"

\* the relative paths that are a regular file in one of the two indices
FileEntries ==
    {p \in AllPaths :
        \/ p \in DOMAIN source_index /\ ~source_index[p].is_dir
        \/ p \in DOMAIN target_index /\ ~target_index[p].is_dir}

FileItems == {p \in DOMAIN items_by_path : items_by_path[p].item_type = "file"}

Counted == summary.identical + summary.modified + summary.missing_from_target
           + summary.extra_in_target

\* C6: after compare(), the four counters add up to the number of file entries of
\* the union of the two indices, and each counter is the number of files that have
\* its status; no directory is counted.
C6_CountersAreFileEntries ==
    cmp_pc = "done" =>
        /\ Counted = Cardinality(FileEntries)
        /\ \A st \in {"identical", "modified", "missing_from_target", "extra_in_target"} :
            summary[st] = Cardinality({p \in FileEntries : items_by_path[p].status = st})

\* the counters do add up to the number of items of type file
C6_CountersAreFileItems ==
    cmp_pc = "done" =>
        /\ Counted = Cardinality(FileItems)
        /\ \A st \in {"identical", "modified", "missing_from_target", "extra_in_target"} :
            summary[st] = Cardinality({p \in FileItems : items_by_path[p].status = st})

\* the digests _hash_file gave are both available
BothDigests == cf_hashes[1] # None /\ cf_hashes[2] # None

\* C10: for two files present in both trees, _compare_files gives modified when the
\* sizes differ; with equal sizes and different timestamps, modified in shallow mode
\* and, in deep mode, identical exactly when both digests are available and equal;
\* with equal sizes and timestamps, identical in shallow mode and, in deep mode,
\* modified exactly when both digests are available and differ.
C10_CompareFilesTable ==
    cf_status # None =>
        /\ cf_status \in {"identical", "modified"}
        /\ cf_source.size # cf_target.size => cf_status = "modified"
        /\ (cf_source.size = cf_target.size /\ cf_source.modified # cf_target.modified) =>
            IF deep_scan
            THEN cf_status = "identical" <=> (BothDigests /\ cf_hashes[1] = cf_hashes[2])
            ELSE cf_status = "modified"
        /\ (cf_source.size = cf_target.size /\ cf_source.modified = cf_target.modified) =>
            IF deep_scan
            THEN cf_status = "modified" <=> (BothDigests /\ cf_hashes[1] # cf_hashes[2])
            ELSE cf_status = "identical"

\* a deep comparison of two files of one size and different timestamps found them
\* identical by their digests
C10_Witness ==
    /\ cf_status = "identical"
    /\ deep_scan
    /\ cf_source.size = cf_target.size
    /\ cf_source.modified # cf_target.modified

\* the places of the returned forest that hold the item of path p
PlacesOf(p) ==
    {<<(<<>>), i>> : i \in {k \in 1..Len(root_items) : root_items[k] = p}}
        \cup UNION {{<<q, i>> : i \in {k \in 1..Len(items_by_path[q].children) :
                                        items_by_path[q].children[k] = p}} :
                    q \in DOMAIN items_by_path}

ShallowVerdict ==
    IF cf_source.size = cf_target.size /\ cf_source.modified = cf_target.modified
    THEN "identical" ELSE "modified"

\* C11: when hashing either file of a pair fails (a null digest), _compare_files
\* returns, in deep mode too, the verdict a shallow comparison gives for the same
\* sizes and timestamps, and it does return.
C11_NullHashKeepsShallowVerdict ==
    (cf_status # None /\ (cf_hashes[1] = None \/ cf_hashes[2] = None)) =>
        cf_status = ShallowVerdict

\* a deep comparison of two files of one size with different timestamps, neither of
\* which could be hashed, returned modified
C11_Witness ==
    /\ cf_status = "modified"
    /\ deep_scan
    /\ cf_source.size = cf_target.size
    /\ cf_source.modified # cf_target.modified
    /\ cf_hashes = <<None, None>>

(***************************************************************************)
(* Claims about the scanner (SpecScan).                                    *)
(***************************************************************************)
IsPrefix(a, b) == Len(a) <= Len(b) /\ SubSeq(b, 1, Len(a)) = a

RECURSIVE SumSizes(_)
SumSizes(recs) == IF recs = <<>> THEN 0 ELSE Head(recs).size_bytes + SumSizes(Tail(recs))

\* the FileRecords whose parent_dir is the folder F or a folder below it
FilesUnder(recs, F) == SelectSeq(recs, LAMBDA r : IsPrefix(Split(F), Split(r.parent_dir)))

FolderTotalsRight(recs, fmap) ==
    \A F \in DOMAIN fmap.rec :
        /\ fmap.rec[F].total_size = SumSizes(FilesUnder(recs, F))
        /\ fmap.rec[F].file_count = Len(FilesUnder(recs, F))

\* C1: after any completed scan (scan or scan_async), every folder's total_size is the
\* sum of the sizes of the files in it or below it and its file_count their number,
\* for every root path the caller may pass.
C1_FolderTotals == sc_pc = "done" => FolderTotalsRight(files, folders)

\* C1 on the root paths written without a trailing separator
C1_FolderTotalsPlainRoot ==
    (sc_pc = "done" /\ root_path = PathOf(Split(root_path))) => FolderTotalsRight(files, folders)

\* the path contains, case-insensitively, an entry of the blacklist
Blacklisted(path) ==
    \E i \in 1..Len(IGNORE_PATHS) : contains(lower(path), lower(IGNORE_PATHS[i]))

\* the path os.walk builds for the directory comps at or below the root
RECURSIVE WalkPathOf(_)
WalkPathOf(comps) ==
    IF comps = Split(root_path) \/ comps = <<>> THEN root_path
    ELSE join(WalkPathOf(SubSeq(comps, 1, Len(comps) - 1)), comps[Len(comps)])

\* the directories strictly below the root whose path is blacklisted
BlacklistedDirs ==
    {D \in fs.dirs : /\ IsPrefix(Split(root_path), D)
                     /\ D # Split(root_path)
                     /\ Blacklisted(WalkPathOf(D))}

\* nothing at or below a blacklisted directory is recorded
NothingBelowBlacklisted ==
    \A D \in BlacklistedDirs :
        /\ \A K \in DOMAIN folders.rec : K # root_path => ~IsPrefix(D, Split(K))
        /\ \A i \in 1..Len(files) : ~IsPrefix(D, Split(files[i].parent_dir))

\* C3 as stated: after a scan no FileRecord has a blacklisted path, no folder-map key
\* other than the pre-inserted root is blacklisted, and nothing below a blacklisted
\* directory is recorded.
C3_BlacklistedSkipped ==
    sc_pc = "done" =>
        /\ \A i \in 1..Len(files) : ~Blacklisted(files[i].path)
        /\ \A K \in DOMAIN folders.rec : K # root_path => ~Blacklisted(K)
        /\ NothingBelowBlacklisted

\* C3 as amended: after a scan every blacklisted directory is pruned: no folder-map key
\* other than the pre-inserted root is blacklisted, no FileRecord has a blacklisted
\* parent_dir other than the root, and nothing below a blacklisted directory is
\* recorded; a file's own path is not tested against the blacklist.
C3_BlacklistedDirsPruned ==
    sc_pc = "done" =>
        /\ \A i \in 1..Len(files) :
              files[i].parent_dir # root_path => ~Blacklisted(files[i].parent_dir)
        /\ \A K \in DOMAIN folders.rec : K # root_path => ~Blacklisted(K)
        /\ NothingBelowBlacklisted

\* a finished scan of a tree that holds a readable file inside a blacklisted directory
\* and that recorded a file whose own path is blacklisted
C3_Witness ==
    /\ sc_pc = "done"
    /\ \E D \in BlacklistedDirs : \E n \in FileNames :
          <<D, n>> \in DOMAIN fs.files /\ fs.files[<<D, n>>].ok
    /\ \E i \in 1..Len(files) : Blacklisted(files[i].path)

\* the file system without the files whose stat fails
WithoutFailing(f) ==
    [f EXCEPT !.files = [k \in {x \in DOMAIN f.files : f.files[x].ok} |-> f.files[k]]]

\* the directory D is at or below the root and the walk reaches and lists it: neither
\* it nor a directory between the root and it is unlistable, and none of them below
\* the root is blacklisted
Walked(D) ==
    LET R == Split(root_path)
    IN  /\ IsPrefix(R, D)
        /\ \A k \in Len(R)..Len(D) :
              /\ SubSeq(D, 1, k) \notin fs.denied
              /\ k > Len(R) => ~Blacklisted(WalkPathOf(SubSeq(D, 1, k)))

\* what a scan that has returned holds: the folder map contains the root, a file whose
\* stat failed is absent from the file list, the files and the folder map (total_size,
\* file_count, last_modified, last_accessed) are those of the same tree without the
\* failing files, and every directory the walk lists and every file in it whose stat
\* succeeds is recorded
FailuresSkipped ==
    /\ sc_pc = "done" =>
          /\ root_path \in DOMAIN folders.rec
          /\ \A k \in DOMAIN fs.files :
                (IsPrefix(Split(root_path), k[1]) /\ ~fs.files[k].ok) =>
                    \A i \in 1..Len(files) : files[i].path # join(WalkPathOf(k[1]), k[2])
          /\ files = scan(WithoutFailing(fs), root_path).files
          /\ folders = scan(WithoutFailing(fs), root_path).folders
          /\ \A D \in fs.dirs :
                Walked(D) =>
                    /\ WalkPathOf(D) \in DOMAIN folders.rec
                    /\ \A k \in DOMAIN fs.files :
                          (k[1] = D /\ fs.files[k].ok) =>
                              \E i \in 1..Len(files) :
                                  /\ files[i].path = join(WalkPathOf(D), k[2])
                                  /\ files[i].size_bytes = fs.files[k].size
                                  /\ files[i].parent_dir = WalkPathOf(D)

\* how far a scan is from its return: the directories the walk has still to pass, and
\* the steps before and after the walk
Remaining ==
    CASE sc_pc = "created" -> 2 + Cardinality(fs.dirs)
      [] sc_pc = "walking" ->
             1 + Cardinality({D \in fs.dirs :
                                 \E i \in 1..Len(walk) : IsPrefix(walk[i].comps, D)})
      [] OTHER -> 0

\* a scan that has not returned can take its next step: the walk holds directories of
\* the tree only, each of which is either listed or passed over
CanProceed ==
    /\ sc_pc \in {"created", "walking", "done"}
    /\ (sc_pc = "walking" /\ walk # <<>>) => Head(walk).comps \in fs.dirs

\* C19: a stat failure on a file or a directory that cannot be listed never aborts the
\* scan: a scan that has not returned can always proceed and every step brings it
\* nearer to its return, also when the root itself cannot be listed, and what it
\* returns contains the root, leaves the failing files out of the file list and of
\* every folder's total_size, file_count and timestamps, and records every other
\* readable entry.
C19_FailuresSkippedScanCompletes ==
    /\ [](FailuresSkipped /\ CanProceed)
    /\ [][Remaining' < Remaining]_vars

\* a finished scan of a root that holds a file whose stat fails, a file that is
\* recorded and a directory that cannot be listed
C19_Witness ==
    /\ sc_pc = "done"
    /\ Len(files) = 1
    /\ \E k \in DOMAIN fs.files : k[1] = Split(root_path) /\ ~fs.files[k].ok
    /\ \E D \in fs.denied : D # Split(root_path) /\ IsPrefix(Split(root_path), D)
    /\ Len(folders.keys) = 1

(***************************************************************************)
(* The HTTP handlers around the scanner and the scan registry.             *)
(***************************************************************************)
\* the file system the API runs on: / holds d, d holds d, each d holds a readable file a
ApiFileSystems ==
    {[dirs |-> {<<>>, <<NameD>>, <<NameD, NameD>>},
      files |-> [k \in {<<(<<NameD>>), NameA>>, <<(<<NameD, NameD>>), NameA>>} |->
                    [ok |-> TRUE, size |-> IF k[1] = <<NameD>> THEN 1 ELSE MaxSize,
                     st_mtime |-> 2, st_atime |-> 2]],
      denied |-> {}]}

\* a path that does not exist
MissingPath == <<sep, "x">>

\* the root_path values a request may carry
RequestPaths ==
    UNION {RootPathsOf(d) : d \in {<<>>, <<NameD>>}}
        \cup {PathOf(<<NameD, NameA>>), MissingPath}

\* os.path.exists
exists(f, p) ==
    \/ Split(p) \in f.dirs
    \/ /\ Split(p) # <<>>
       /\ p[Len(p)] # sep
       /\ <<SubSeq(Split(p), 1, Len(Split(p)) - 1), Split(p)[Len(Split(p))]>> \in DOMAIN f.files

\* whether every path a request has to validate names a directory
Requested(paths) ==
    IF \A i \in 1..Len(paths) : \E comps \in fs.dirs : paths[i] \in RootPathsOf(comps)
    THEN "valid" ELSE "invalid"

\* an identifier source that repeats itself
uuid4_Repeating == next_id - next_id + 1

\* str(uuid.uuid4()): an identifier never given out before
uuid4 == next_id + 1

\* a ScanResponse that takes its totals from the root folder's record
ScanResponse_FromRootFolder(scan_id, root_path_, files_, folders_) ==
    [scan_id |-> scan_id,
     root_path |-> root_path_,
     total_files |-> folders_.rec[root_path_].file_count,
     total_folders |-> Cardinality(DOMAIN folders_.rec),
     total_size_bytes |-> folders_.rec[root_path_].total_size]

\* total_files, total_folders, total_size and the ScanResponse built from them
ScanResponse(scan_id, root_path_, files_, folders_) ==
    [scan_id |-> scan_id,
     root_path |-> root_path_,
     total_files |-> Len(files_),
     total_folders |-> Cardinality(DOMAIN folders_.rec),
     total_size_bytes |-> SumSizes(files_)]

\* ScanData with its three fields set
ScanData(scan_id, root_path_, files_, folders_) ==
    [files |-> files_,
     folders |-> folders_,
     scan_info |-> ScanResponse(scan_id, root_path_, files_, folders_)]

\* scans[scan_id] = scan_data
Store(registry, scan_id, scan_data) ==
    [k \in DOMAIN registry \cup {scan_id} |->
        IF k = scan_id THEN scan_data ELSE registry[k]]

\* POST /api/scan
start_scan ==
    \E p \in RequestPaths :
        IF ~exists(fs, p) \/ ~isdir(fs, p)
        THEN /\ last_status' = 400
             /\ last_lookup' = "none"
             /\ last_path' = Requested(<<p>>)
             /\ UNCHANGED <<anVars, cmpVars, fs, root_path, scanVars, scans, next_id, resp_pc, stream_id,
                            delivered, returned, snapshots, snapVars>>
        ELSE /\ next_id < MaxScans
             /\ LET scan_id == uuid4
                    result == scan(fs, p)
                    scan_data == ScanData(scan_id, p, result.files, result.folders)
                IN  /\ scans' = Store(scans, scan_id, scan_data)
                    /\ returned' = returned \cup {[scan_id |-> scan_id, data |-> scan_data]}
             /\ next_id' = next_id + 1
             /\ last_status' = 200
             /\ last_lookup' = "none"
             /\ last_path' = Requested(<<p>>)
             /\ UNCHANGED <<anVars, cmpVars, fs, root_path, scanVars, resp_pc, stream_id, delivered, snapshots, snapVars>>

\* GET /api/scan/stream up to the first suspension of event_generator: the path checks,
\* scan_id, progress_queue, create_task, and the first test of scan_task.done(), which
\* the task just created fails, so that the generator waits in progress_queue.get()
scan_stream ==
    /\ resp_pc \in {"idle", "closed"}
    /\ \E p \in RequestPaths :
        IF ~exists(fs, p) \/ ~isdir(fs, p)
        THEN /\ last_status' = 400
             /\ last_lookup' = "none"
             /\ last_path' = Requested(<<p>>)
             /\ UNCHANGED <<anVars, cmpVars, fs, root_path, scanVars, scans, next_id, resp_pc, stream_id,
                            delivered, returned, snapshots, snapVars>>
        ELSE /\ next_id < MaxScans
             /\ stream_id' = uuid4
             /\ next_id' = next_id + 1
             /\ root_path' = p
             /\ sc_pc' = "created"
             /\ mode' = "none"
             /\ walk' = <<>>
             /\ files' = <<>>
             /\ folders' = EmptyFolders
             /\ file_count' = 0
             /\ total_bytes' = 0
             /\ emitted' = <<>>
             /\ progress_queue' = <<>>
             /\ delivered' = <<>>
             /\ resp_pc' = "get"
             /\ last_status' = 200
             /\ last_lookup' = "none"
             /\ last_path' = Requested(<<p>>)
             /\ UNCHANGED <<anVars, cmpVars, fs, scans, returned, snapshots, snapVars>>

\* event_generator, resumed after a yielded progress frame: scan_task is not done, so the
\* loop goes on and waits in wait_for(progress_queue.get(), timeout=0.1)
RespResume ==
    /\ resp_pc = "check"
    /\ sc_pc # "done"
    /\ resp_pc' = "get"
    /\ UNCHANGED <<anVars, cmpVars, fs, root_path, scanVars, scans, next_id, stream_id, delivered,
                   returned, last_status, snapshots, snapVars, last_lookup, last_path>>

\* a queue that hands out its newest item first
QueueGet_Lifo(q) == [item |-> q[Len(q)], rest |-> SubSeq(q, 1, Len(q) - 1)]

\* progress_queue.get(): the item taken and the queue left
QueueGet(q) == [item |-> Head(q), rest |-> Tail(q)]

\* event_generator: wait_for(progress_queue.get()) gives an item, which is yielded; the
\* generator stays suspended at the yield until the client has taken the frame
RespGet ==
    /\ resp_pc = "get"
    /\ progress_queue # <<>>
    /\ delivered' = Append(delivered, [event_type |-> "progress",
                                       scan_id |-> stream_id,
                                       data |-> QueueGet(progress_queue).item])
    /\ progress_queue' = QueueGet(progress_queue).rest
    /\ resp_pc' = "check"
    /\ UNCHANGED <<anVars, cmpVars, fs, root_path, mode, sc_pc, walk, files, folders, file_count,
                   total_bytes, emitted, scans, next_id, stream_id, returned, last_status, snapshots, snapVars,
                   last_lookup, last_path>>

\* event_generator: wait_for times out on the empty queue while scan_task is not done,
\* and the loop waits again
RespTimeout ==
    /\ resp_pc = "get"
    /\ progress_queue = <<>>
    /\ sc_pc # "done"
    /\ UNCHANGED vars

\* event_generator: the loop test finds scan_task done (after a yield, or after a
\* timeout on the empty queue); the scan is stored and the completion event yielded
RespFinish ==
    /\ \/ resp_pc = "check"
       \/ resp_pc = "get" /\ progress_queue = <<>>
    /\ sc_pc = "done"
    /\ LET scan_data == ScanData(stream_id, root_path, files, folders)
       IN  /\ scans' = Store(scans, stream_id, scan_data)
           /\ delivered' = Append(delivered, [event_type |-> "complete",
                                              scan_id |-> stream_id,
                                              scan_response |-> scan_data.scan_info])
           /\ returned' = returned \cup {[scan_id |-> stream_id, data |-> scan_data]}
    /\ resp_pc' = "closed"
    /\ last_lookup' = "none"
    /\ UNCHANGED <<anVars, cmpVars, fs, root_path, scanVars, next_id, stream_id, last_status, snapshots, snapVars,
                   last_path>>

\* the identifiers a lookup may carry: every one given out so far and one never given out
LookupIds == 1..(MaxScans + 1)

\* whether the registry holds the scan_id of a request
Looked(scan_id) == IF scan_id \in DOMAIN scans THEN "hit" ELSE "miss"

\* GET /api/findings for one scan_id: 404 when it is unknown; the Analyzer only reads
\* the scan
GetFindingsOf(scan_id) ==
    last_status' = (IF scan_id \notin DOMAIN scans THEN 404 ELSE 200)

get_findings ==
    /\ \E scan_id \in LookupIds :
           /\ GetFindingsOf(scan_id)
           /\ last_lookup' = Looked(scan_id)
           /\ last_path' = "none"
    /\ UNCHANGED <<anVars, cmpVars, fs, root_path, scanVars, scans, next_id, resp_pc, stream_id, delivered,
                   returned, snapshots, snapVars>>

\* GET /api/extensions-summary for one scan_id: 404 when it is unknown; the Analyzer
\* only reads the scan
GetExtensionsSummaryOf(scan_id) ==
    last_status' = (IF scan_id \notin DOMAIN scans THEN 404 ELSE 200)

get_extensions_summary ==
    /\ \E scan_id \in LookupIds :
           /\ GetExtensionsSummaryOf(scan_id)
           /\ last_lookup' = Looked(scan_id)
           /\ last_path' = "none"
    /\ UNCHANGED <<anVars, cmpVars, fs, root_path, scanVars, scans, next_id, resp_pc, stream_id, delivered,
                   returned, snapshots, snapVars>>

(***************************************************************************)
(* json.dumps and json.loads on the values the snapshot payloads are made  *)
(* of.  A Python value is a record tagged with its type; a JSON text is    *)
(* the sequence of its tokens.  The escapes inside a JSON string are not   *)
(* modelled: a string token carries the string.                            *)
(***************************************************************************)
PyNone == [t |-> "NoneType"]

PyInt(n) == [t |-> "int", v |-> n]

PyStr(s) == [t |-> "str", v |-> s]

PyList(l) == [t |-> "list", v |-> l]

\* a dict: its keys in insertion order and the value of each
PyDict(keys, values) == [t |-> "dict", k |-> keys, v |-> values]

Token(kind) == [tok |-> kind]

\* a separator before every element but the first
Separated(texts) ==
    ConcatAll([i \in 1..Len(texts) |->
                  (IF i = 1 THEN <<>> ELSE <<Token(",")>>) \o texts[i]])

\* json.dumps(value)
RECURSIVE json_dumps(_)
json_dumps(value) ==
    CASE value.t = "NoneType" -> <<Token("null")>>
      [] value.t = "int" -> <<[tok |-> "number", v |-> value.v]>>
      [] value.t = "str" -> <<[tok |-> "string", v |-> value.v]>>
      [] value.t = "list" ->
            <<Token("[")>>
            \o Separated([i \in 1..Len(value.v) |-> json_dumps(value.v[i])])
            \o <<Token("]")>>
      [] value.t = "dict" ->
            <<Token("{")>>
            \o Separated([i \in 1..Len(value.k) |->
                             <<[tok |-> "string", v |-> value.k[i]], Token(":")>>
                             \o json_dumps(value.v[i])])
            \o <<Token("}")>>

\* the JSON decoder: the value that starts at token i and the token after it
RECURSIVE ParseValue(_, _)
RECURSIVE ParseItems(_, _, _)
RECURSIVE ParseMembers(_, _, _, _)
ParseValue(text, i) ==
    CASE text[i].tok = "null" -> [value |-> PyNone, next |-> i + 1]
      [] text[i].tok = "number" -> [value |-> PyInt(text[i].v), next |-> i + 1]
      [] text[i].tok = "string" -> [value |-> PyStr(text[i].v), next |-> i + 1]
      [] text[i].tok = "[" -> ParseItems(text, i + 1, <<>>)
      [] text[i].tok = "{" -> ParseMembers(text, i + 1, <<>>, <<>>)

\* the elements of an array, up to its closing bracket
ParseItems(text, i, items) ==
    IF text[i].tok = "]" THEN [value |-> PyList(items), next |-> i + 1]
    ELSE LET item == ParseValue(text, i)
         IN  ParseItems(text,
                        IF text[item.next].tok = "," THEN item.next + 1 ELSE item.next,
                        Append(items, item.value))

\* the members of an object, up to its closing brace
ParseMembers(text, i, keys, values) ==
    IF text[i].tok = "}" THEN [value |-> PyDict(keys, values), next |-> i + 1]
    ELSE LET member == ParseValue(text, i + 2)
         IN  ParseMembers(text,
                          IF text[member.next].tok = "," THEN member.next + 1
                          ELSE member.next,
                          Append(keys, text[i].v), Append(values, member.value))

\* json.loads(text)
json_loads(text) == ParseValue(text, 1).value

\* bool(value), for the values "if comparison_data" is asked of
Truthy(value) ==
    CASE value.t = "NoneType" -> FALSE
      [] value.t = "list" -> value.v # <<>>
      [] value.t = "dict" -> value.k # <<>>

\* Finding.dict() (the reason text is not carried)
FindingDict(f) ==
    PyDict(<<"id", "category", "paths", "total_bytes">>,
           <<PyStr(f.id), PyStr(f.category),
             PyList([i \in 1..Len(f.paths) |-> PyStr(f.paths[i])]),
             PyInt(f.total_bytes)>>)

\* ExtensionSummary.dict()
ExtensionDict(e) ==
    PyDict(<<"extension", "file_count", "total_bytes">>,
           <<PyStr(e.extension), PyInt(e.file_count), PyInt(e.total_bytes)>>)

\* ScanResponse.dict() (started_at and completed_at are not carried)
ScanInfoDict(info) ==
    PyDict(<<"scan_id", "root_path", "total_files", "total_folders", "total_size_bytes">>,
           <<PyStr(info.scan_id), PyStr(info.root_path), PyInt(info.total_files),
             PyInt(info.total_folders), PyInt(info.total_size_bytes)>>)

\* [f.dict() ... for f in findings]
FindingDicts(findings_) == PyList([i \in 1..Len(findings_) |-> FindingDict(findings_[i])])

\* [e.dict() ... for e in extensions]
ExtensionDicts(extensions) ==
    PyList([i \in 1..Len(extensions) |-> ExtensionDict(extensions[i])])

\* dict.get(key) on a dict that holds the key
DictGet(dict, key) == dict.v[CHOOSE i \in 1..Len(dict.k) : dict.k[i] = key]

\* serialize_snapshot: the SnapshotDB row (saved_at is not carried); a column that is
\* None holds <<>>
serialize_snapshot(snapshot_id, scan_id, root_path_, findings_, extensions, scan_info, snapshot_type, target_path_, comparison_data, comparison_summary) ==
    [id |-> snapshot_id,
     scan_id |-> scan_id,
     root_path |-> root_path_,
     findings_json |-> json_dumps(findings_),
     extensions_json |-> json_dumps(extensions),
     scan_info_json |-> json_dumps(scan_info),
     total_files |-> DictGet(scan_info, "total_files").v,
     total_folders |-> DictGet(scan_info, "total_folders").v,
     total_size_bytes |-> DictGet(scan_info, "total_size_bytes").v,
     snapshot_type |-> snapshot_type,
     target_path |-> target_path_,
     comparison_json |-> IF Truthy(comparison_data) THEN json_dumps(comparison_data) ELSE <<>>,
     comparison_summary_json |->
         IF Truthy(comparison_summary) THEN json_dumps(comparison_summary) ELSE <<>>]

\* what deserialize_snapshot returns whatever the row's type
Deserialized(snapshot_db) ==
    [id |-> snapshot_db.id,
     scan_id |-> snapshot_db.scan_id,
     root_path |-> snapshot_db.root_path,
     findings |-> json_loads(snapshot_db.findings_json),
     extensions |-> json_loads(snapshot_db.extensions_json),
     scan_info |-> json_loads(snapshot_db.scan_info_json),
     total_files |-> snapshot_db.total_files,
     total_folders |-> snapshot_db.total_folders,
     total_size_bytes |-> snapshot_db.total_size_bytes,
     snapshot_type |-> IF snapshot_db.snapshot_type = "" THEN "scan"
                       ELSE snapshot_db.snapshot_type,
     target_path |-> snapshot_db.target_path]

\* a deserialize_snapshot that asks the decoded value, not the stored text, whether
\* there is a comparison
deserialize_snapshot_AsksDecoded(snapshot_db) ==
    Deserialized(snapshot_db)
    @@ (IF snapshot_db.comparison_json # <<>>
           /\ Truthy(json_loads(snapshot_db.comparison_json))
        THEN [comparison |-> json_loads(snapshot_db.comparison_json)] ELSE <<>>)
    @@ (IF snapshot_db.comparison_summary_json # <<>>
        THEN [comparison_summary |-> json_loads(snapshot_db.comparison_summary_json)]
        ELSE <<>>)

\* deserialize_snapshot: "if snapshot_db.comparison_json" asks whether the text is
\* neither None nor empty
deserialize_snapshot(snapshot_db) ==
    Deserialized(snapshot_db)
    @@ (IF snapshot_db.comparison_json # <<>>
        THEN [comparison |-> json_loads(snapshot_db.comparison_json)] ELSE <<>>)
    @@ (IF snapshot_db.comparison_summary_json # <<>>
        THEN [comparison_summary |-> json_loads(snapshot_db.comparison_summary_json)]
        ELSE <<>>)

\* datetime.now() when the analysis runs: no file is younger
now == MaxMtime

\* (now - datetime.fromisoformat(stamp)).days, a datetime counting days; None stays None
DaysSince(stamp) == IF stamp = <<>> THEN <<>> ELSE <<now - fromisoformat(stamp)>>

\* the folder map as the Analyzer's passes read it: each timestamp by its age
FolderAges(folders_) ==
    [keys |-> folders_.keys,
     rec |-> [p \in DOMAIN folders_.rec |->
                 [folders_.rec[p] EXCEPT !.last_modified = DaysSince(@),
                                         !.last_accessed = DaysSince(@)]]]

\* the file list as the Analyzer reads it: each record with the "extension" the scanner
\* gave it, os.path.splitext(filename)[1].lower()
WithExtension(files_) ==
    [i \in 1..Len(files_) |->
        [path |-> files_[i].path,
         size_bytes |-> files_[i].size_bytes,
         extension |-> lower(splitext1(basename(files_[i].path))),
         parent_dir |-> files_[i].parent_dir]]

\* Analyzer(files, folders).analyze(): the six passes in their order
analyze(files_, folders_) ==
    LET ages == FolderAges(folders_)
        s1 == _analyze_large_folders([findings |-> <<>>, finding_id |-> 0], ages)
        s2 == _analyze_old_large_folders(s1, ages)
        s3 == _analyze_cache_candidates(s2, ages)
        s4 == _analyze_duplicate_folder_candidates(s3, ages)
        s5 == _analyze_duplicate_file_candidates(s4, WithExtension(files_))
        s6 == _analyze_cold_archive_candidates(s5, ages)
    IN  s6.findings

\* what a save request handed to the store for one snapshot
Payload(findings_, extensions, scan_info, comparison_data, comparison_summary) ==
    [findings |-> findings_,
     extensions |-> extensions,
     scan_info |-> scan_info,
     comparison |-> comparison_data,
     comparison_summary |-> comparison_summary]

\* a handler that saves a row without looking the scan up
SaveSnapshotOf_NoLookup(scan_id, root_path_) ==
    /\ Len(snapshots) < MaxSnapshots
    /\ next_id < MaxIds
    /\ snapshots' = Append(snapshots,
                           [id |-> <<"snapshot-", uuid4>>,
                            scan_id |-> scan_id,
                            root_path |-> root_path_,
                            snapshot_type |-> "scan"])
    /\ next_id' = next_id + 1
    /\ last_status' = 200
    /\ UNCHANGED <<response, saved>>

\* POST /api/snapshots for one request (scan_id, root_path): 404 when the scan_id is
\* unknown, else the row is added and committed and the answer is the row deserialized
SaveSnapshotOf(scan_id, root_path_) ==
    IF scan_id \notin DOMAIN scans
    THEN /\ last_status' = 404
         /\ response' = <<>>
         /\ UNCHANGED <<snapshots, next_id, saved>>
    ELSE /\ Len(snapshots) < MaxSnapshots
         /\ next_id < MaxIds
         /\ LET scan_data == scans[scan_id]
                findings_ == FindingDicts(analyze(scan_data.files, scan_data.folders))
                extensions ==
                    ExtensionDicts(get_extension_summary(WithExtension(scan_data.files)))
                scan_info == ScanInfoDict(scan_data.scan_info)
                snapshot_id == <<"snapshot-", uuid4>>
                snapshot == serialize_snapshot(snapshot_id, scan_id, root_path_, findings_,
                                               extensions, scan_info, "scan", <<>>,
                                               PyNone, PyNone)
            IN  /\ snapshots' = Append(snapshots, snapshot)
                /\ response' = deserialize_snapshot(snapshot)
                /\ saved' = DictSet(saved, snapshot_id,
                                    Payload(findings_, extensions, scan_info, PyNone, PyNone))
         /\ next_id' = next_id + 1
         /\ last_status' = 200

\* the root_path values a snapshot request may carry
SnapshotPaths == {PathOf(<<NameD>>), MissingPath}

save_snapshot ==
    /\ \E scan_id \in LookupIds, p \in SnapshotPaths :
           /\ SaveSnapshotOf(scan_id, p)
           /\ last_lookup' = Looked(scan_id)
           /\ last_path' = "none"
           /\ last_snapshot' = IF scan_id \in DOMAIN scans THEN "saved" ELSE "none"
    /\ UNCHANGED <<anVars, cmpVars, fs, root_path, scanVars, scans, resp_pc, stream_id,
                   delivered, returned>>

\* the tree below one directory of the file system, as FolderComparator walks it from
\* there; nothing when the path names no directory
Subtree(f, comps) ==
    LET rel(D) == SubSeq(D, Len(comps) + 1, Len(D))
        below == {k \in DOMAIN f.files : IsPrefix(comps, k[1]) /\ comps \in f.dirs}
    IN  [dirs |-> {rel(D) : D \in {X \in f.dirs : IsPrefix(comps, X)}},
         files |-> [k \in {<<rel(j[1]), j[2]>> : j \in below} |->
                       LET st == f.files[<<comps \o k[1], k[2]>>]
                       IN  [ok |-> st.ok, size |-> st.size, mtime |-> st.st_mtime]]]

\* the relative paths whose two files _compare_files hashes: in deep mode, two files of
\* one size
Hashed(sidx, tidx, deep) ==
    {rel_path \in DOMAIN sidx \cap DOMAIN tidx :
        /\ deep
        /\ ~sidx[rel_path].is_dir /\ ~tidx[rel_path].is_dir
        /\ sidx[rel_path].size = tidx[rel_path].size}

\* the results of all the _hash_file calls of one compare(), by relative path
HashResults(sidx, tidx, deep) ==
    {[rel_path \in DOMAIN sidx \cup DOMAIN tidx |->
         IF rel_path \in DOMAIN h THEN h[rel_path] ELSE <<None, None>>] :
     h \in [Hashed(sidx, tidx, deep) -> HashValues \X HashValues]}

\* compare: the loop "for rel_path in sorted(all_paths)", run to its end
RECURSIVE ClassifyAll(_, _, _, _, _, _)
ClassifyAll(st, todo_, sidx, tidx, deep, hashes) ==
    IF todo_ = <<>> THEN st
    ELSE LET rel_path == Head(todo_)
             item == Classify(rel_path, sidx, tidx, deep,
                              hashes[rel_path][1], hashes[rel_path][2])
             next == [items |-> DictSet(st.items, rel_path, item),
                      summary |-> SummaryAdd(st.summary, item,
                          IF rel_path \in DOMAIN sidx THEN sidx[rel_path].size ELSE 0,
                          IF rel_path \in DOMAIN tidx THEN tidx[rel_path].size ELSE 0)]
         IN  ClassifyAll(next, Tail(todo_), sidx, tidx, deep, hashes)

\* compare: the loop "for rel_path, item in sorted(items_by_path.items())", run to its end
RECURSIVE AttachAll(_, _)
AttachAll(st, todo_) ==
    IF todo_ = <<>> THEN st ELSE AttachAll(Attach(st, Head(todo_)), Tail(todo_))

\* FolderComparator.compare() once the two indices are built
compare(sidx, tidx, deep, hashes) ==
    LET first == ClassifyAll([items |-> <<>>, summary |-> ComparisonSummary],
                             sorted(DOMAIN sidx \cup DOMAIN tidx), sidx, tidx, deep, hashes)
        second == AttachAll([items |-> first.items, roots |-> <<>>],
                            sorted(DOMAIN first.items))
    IN  [source_index |-> sidx, target_index |-> tidx, items_by_path |-> second.items,
         summary |-> first.summary, root_items |-> second.roots]

\* the source_path and target_path values a comparison request may carry: a directory
\* and a missing path, a directory and a regular file
CompareSourcePaths == {PathOf(<<NameD>>), MissingPath}

CompareTargetPaths == {PathOf(<<NameD, NameD>>), PathOf(<<NameD, NameA>>)}

\* FolderComparator(sp, tp, deep).compare() on the file system f: every result the
\* _hash_file calls allow
ComparisonsOf(f, sp, tp, deep) ==
    LET src == Subtree(f, Split(sp))
        tgt == Subtree(f, Split(tp))
        sidx == _build_file_index(src, sp)
        tidx == _build_file_index(tgt, tp)
    IN  {[source_tree |-> src, target_tree |-> tgt,
          result |-> compare(sidx, tidx, deep, hashes)] :
         hashes \in HashResults(sidx, tidx, deep)}

\* the comparisons the server can be asked for; each depends on the file system, the
\* two paths and deep_scan only
Comparisons ==
    [f \in ApiFileSystems, sp \in CompareSourcePaths, tp \in CompareTargetPaths,
     deep \in BOOLEAN |-> ComparisonsOf(f, sp, tp, deep)]

\* POST /api/compare: the four path checks, comparison_id = str(uuid.uuid4()), then the
\* whole comparison; the response is what the comparator holds when compare() returns
compare_directories ==
    \E sp \in CompareSourcePaths, tp \in CompareTargetPaths, deep \in BOOLEAN :
        IF \/ ~exists(fs, sp) \/ ~isdir(fs, sp)
           \/ ~exists(fs, tp) \/ ~isdir(fs, tp)
        THEN /\ last_status' = 400
             /\ last_lookup' = "none"
             /\ last_path' = Requested(<<sp, tp>>)
             /\ UNCHANGED <<anVars, cmpVars, fs, root_path, scanVars, scans, next_id, resp_pc,
                            stream_id, delivered, returned, snapshots, snapVars>>
        ELSE /\ next_id < MaxScans
             /\ next_id' = next_id + 1
             /\ \E run \in Comparisons[fs, sp, tp, deep] :
                    /\ source_tree' = run.source_tree
                    /\ target_tree' = run.target_tree
                    /\ source_index' = run.result.source_index
                    /\ target_index' = run.result.target_index
                    /\ items_by_path' = run.result.items_by_path
                    /\ summary' = run.result.summary
                    /\ root_items' = run.result.root_items
             /\ deep_scan' = deep
             /\ todo' = <<>>
             /\ cmp_pc' = "done"
             /\ last_status' = 200
             /\ last_lookup' = "none"
             /\ last_path' = Requested(<<sp, tp>>)
             /\ UNCHANGED <<anVars, fs, root_path, scanVars, scans, resp_pc, stream_id,
                            delivered, returned, snapshots, snapVars, cf_source, cf_target,
                            cf_hashes, cf_status>>

InitApi ==
    /\ fs \in ApiFileSystems
    /\ root_path = <<>>
    /\ mode = "none"
    /\ sc_pc = "idle"
    /\ walk = <<>>
    /\ files = <<>>
    /\ folders = EmptyFolders
    /\ file_count = 0
    /\ total_bytes = 0
    /\ emitted = <<>>
    /\ progress_queue = <<>>
    /\ ApiIdle
    /\ CmpIdle
    /\ AnIdle

NextApi ==
    \/ start_scan
    \/ scan_stream
    \/ ScanAsyncStart
    \/ ScanAsyncVisit
    \/ ScanAsyncFinish
    \/ RespResume
    \/ RespGet
    \/ RespTimeout
    \/ RespFinish
    \/ get_findings
    \/ get_extensions_summary

SpecApi == InitApi /\ [][NextApi]_vars

\* the requests that look a scan up, with POST /api/scan filling the registry they
\* look it up in
NextLookup ==
    \/ start_scan
    \/ get_findings
    \/ get_extensions_summary
    \/ save_snapshot

SpecLookup == InitApi /\ [][NextLookup]_vars

\* the three requests that validate a path before they walk, with the scan task and
\* the generator of the streaming endpoint
NextPaths ==
    \/ start_scan
    \/ scan_stream
    \/ ScanAsyncStart
    \/ ScanAsyncVisit
    \/ ScanAsyncFinish
    \/ RespResume
    \/ RespGet
    \/ RespTimeout
    \/ RespFinish
    \/ compare_directories

SpecPaths == InitApi /\ [][NextPaths]_vars

(***************************************************************************)
(* The snapshot endpoints.  The server has scanned two directories, one    *)
(* holding a large file and an empty one; snapshots of the scans and of    *)
(* comparisons are saved, loaded, updated and deleted while directories    *)
(* are removed behind the server's back.                                   *)
(***************************************************************************)
\* the file system the snapshot endpoints start on: / holds d, d holds the file a (of
\* LARGE_FOLDER_THRESHOLD bytes) and the empty directory d
SnapshotFileSystem ==
    [dirs |-> {<<>>, <<NameD>>, <<NameD, NameD>>},
     files |-> [k \in {<<(<<NameD>>), NameA>>} |->
                   [ok |-> TRUE, size |-> LARGE_FOLDER_THRESHOLD,
                    st_mtime |-> 2, st_atime |-> 2]],
     denied |-> {}]

\* shutil.rmtree(comps), by another process
rmtree(f, comps) ==
    [dirs |-> {D \in f.dirs : ~IsPrefix(comps, D)},
     files |-> [k \in {j \in DOMAIN f.files : ~IsPrefix(comps, j[1])} |-> f.files[k]],
     denied |-> f.denied]

\* a directory of the file system is removed with all it holds
RemoveDirectory ==
    /\ \E comps \in fs.dirs \ {<<>>} : fs' = rmtree(fs, comps)
    /\ UNCHANGED <<anVars, cmpVars, root_path, scanVars, apiVars>>

\* ComparisonItem.dict() of the item at rel_path, its children with it; None is told
\* by the side the path was found on (the comparison is not deep: no hash is set)
RECURSIVE ItemDict(_, _)
ItemDict(items, rel_path) ==
    LET item == items[rel_path]
        in_source == item.status # "extra_in_target"
        in_target == item.status # "missing_from_target"
    IN  PyDict(<<"name", "relative_path", "item_type", "status", "source_size",
                 "target_size", "source_modified", "target_modified", "source_hash",
                 "target_hash", "children", "difference_count">>,
               <<PyStr(item.name), PyStr(item.relative_path), PyStr(item.item_type),
                 PyStr(item.status),
                 IF in_source THEN PyInt(item.source_size) ELSE PyNone,
                 IF in_target THEN PyInt(item.target_size) ELSE PyNone,
                 IF in_source THEN PyStr(item.source_modified) ELSE PyNone,
                 IF in_target THEN PyStr(item.target_modified) ELSE PyNone,
                 PyNone, PyNone,
                 IF item.has_children
                 THEN PyList([i \in 1..Len(item.children) |->
                                 ItemDict(items, item.children[i])])
                 ELSE PyNone,
                 PyInt(item.difference_count)>>)

\* [item.dict() for item in tree]
TreeDicts(result) ==
    PyList([i \in 1..Len(result.root_items) |->
               ItemDict(result.items_by_path, result.root_items[i])])

\* ComparisonSummary.dict()
SummaryDict(sum) ==
    PyDict(<<"identical", "modified", "missing_from_target", "extra_in_target",
             "total_source_size", "total_target_size">>,
           <<PyInt(sum.identical), PyInt(sum.modified), PyInt(sum.missing_from_target),
             PyInt(sum.extra_in_target), PyInt(sum.total_source_size),
             PyInt(sum.total_target_size)>>)

\* summary.identical + summary.modified + summary.missing_from_target
SourceFiles(sum) == sum.identical + sum.modified + sum.missing_from_target

\* the scan_info dict save_comparison_snapshot makes up (without its two timestamps)
ComparisonScanInfo(comparison_id, source_path_, sum) ==
    PyDict(<<"scan_id", "root_path", "total_files", "total_folders", "total_size_bytes">>,
           <<PyStr(comparison_id), PyStr(source_path_), PyInt(SourceFiles(sum)), PyInt(0),
             PyInt(sum.total_source_size)>>)

\* a query that takes the first row of the table whatever id it is asked for
RowOf_First(snapshot_id) == IF snapshots = <<>> THEN 0 ELSE 1

\* db.query(SnapshotDB).filter(SnapshotDB.id == snapshot_id).first(): the index of the
\* row; 0 when no row has the id
RowOf(snapshot_id) ==
    IF \E i \in 1..Len(snapshots) : snapshots[i].id = snapshot_id
    THEN CHOOSE i \in 1..Len(snapshots) : snapshots[i].id = snapshot_id
    ELSE 0

\* the snapshot ids a request may name: those of the rows, and one never given out
SnapshotIds == {snapshots[i].id : i \in 1..Len(snapshots)} \cup {<<"snapshot-", 0>>}

\* the (source_path, target_path) pairs a comparison snapshot is asked for: the two
\* directories, and the empty directory against itself
ComparedPairs ==
    {<<PathOf(<<NameD>>), PathOf(<<NameD, NameD>>)>>,
     <<PathOf(<<NameD, NameD>>), PathOf(<<NameD, NameD>>)>>}

\* del saved[snapshot_id], if it is there
Forget(d, k) == [x \in DOMAIN d \ {k} |-> d[x]]

\* whether a stored path still names a directory of the file system
StillThere(p) == \E comps \in fs.dirs : p \in RootPathsOf(comps)

\* POST /api/snapshots/comparison: no path is checked; the comparison is run again,
\* never deep, and the row is built without serialize_snapshot
save_comparison_snapshot ==
    /\ Len(snapshots) < MaxSnapshots
    /\ next_id < MaxIds
    /\ \E pair \in ComparedPairs : \E run \in ComparisonsOf(fs, pair[1], pair[2], FALSE) :
           LET comparison_id == "c"
               snapshot_id == <<"comparison-", uuid4>>
               scan_info == ComparisonScanInfo(comparison_id, pair[1], run.result.summary)
               tree == TreeDicts(run.result)
               sum == SummaryDict(run.result.summary)
               snapshot ==
                   [id |-> snapshot_id,
                    scan_id |-> comparison_id,
                    root_path |-> pair[1],
                    findings_json |-> json_dumps(PyList(<<>>)),
                    extensions_json |-> json_dumps(PyList(<<>>)),
                    scan_info_json |-> json_dumps(scan_info),
                    total_files |-> DictGet(scan_info, "total_files").v,
                    total_folders |-> 0,
                    total_size_bytes |-> run.result.summary.total_source_size,
                    snapshot_type |-> "comparison",
                    target_path |-> pair[2],
                    comparison_json |-> json_dumps(tree),
                    comparison_summary_json |-> json_dumps(sum)]
           IN  /\ snapshots' = Append(snapshots, snapshot)
               /\ response' = deserialize_snapshot(snapshot)
               /\ saved' = DictSet(saved, snapshot_id,
                                   Payload(PyList(<<>>), PyList(<<>>), scan_info, tree, sum))
    /\ next_id' = next_id + 1
    /\ last_status' = 200
    /\ last_snapshot' = "saved"
    /\ last_lookup' = "none"
    /\ last_path' = "none"
    /\ UNCHANGED <<anVars, cmpVars, fs, root_path, scanVars, scans, resp_pc, stream_id,
                   delivered, returned>>

\* GET /api/snapshots/{snapshot_id}
get_snapshot ==
    /\ \E snapshot_id \in SnapshotIds :
           /\ IF RowOf(snapshot_id) = 0
              THEN /\ last_status' = 404
                   /\ response' = <<>>
              ELSE /\ last_status' = 200
                   /\ response' = deserialize_snapshot(snapshots[RowOf(snapshot_id)])
           /\ last_snapshot' = IF \E i \in 1..Len(snapshots) : snapshots[i].id = snapshot_id
                               THEN "loaded" ELSE "unknown"
    /\ last_lookup' = "none"
    /\ last_path' = "none"
    /\ UNCHANGED <<anVars, cmpVars, fs, root_path, scanVars, scans, next_id, resp_pc, stream_id,
                   delivered, returned, snapshots, saved>>

\* PUT /api/snapshots/{snapshot_id} for one id: 404 when no row has it, 400 when the
\* stored root is no directory any more, else the root is scanned and analysed again
\* and the row overwritten
UpdateSnapshotOf(snapshot_id) ==
    IF RowOf(snapshot_id) = 0
    THEN /\ last_status' = 404
         /\ response' = <<>>
         /\ UNCHANGED <<snapshots, next_id, saved>>
    ELSE LET snapshot == snapshots[RowOf(snapshot_id)]
         IN  IF ~exists(fs, snapshot.root_path) \/ ~isdir(fs, snapshot.root_path)
             THEN /\ last_status' = 400
                  /\ response' = <<>>
                  /\ UNCHANGED <<snapshots, next_id, saved>>
             ELSE /\ next_id < MaxIds
                  /\ LET new_scan_id == uuid4
                         result == scan(fs, snapshot.root_path)
                         scan_info == ScanResponse(new_scan_id, snapshot.root_path,
                                                   result.files, result.folders)
                         updated ==
                             [snapshot EXCEPT
                                 !.scan_id = new_scan_id,
                                 !.findings_json =
                                     json_dumps(FindingDicts(analyze(result.files,
                                                                     result.folders))),
                                 !.extensions_json =
                                     json_dumps(ExtensionDicts(get_extension_summary(
                                                    WithExtension(result.files)))),
                                 !.scan_info_json = json_dumps(ScanInfoDict(scan_info)),
                                 !.total_files = scan_info.total_files,
                                 !.total_folders = scan_info.total_folders,
                                 !.total_size_bytes = scan_info.total_size_bytes]
                     IN  /\ snapshots' = [snapshots EXCEPT ![RowOf(snapshot_id)] = updated]
                         /\ response' = deserialize_snapshot(updated)
                  /\ saved' = Forget(saved, snapshot_id)
                  /\ next_id' = next_id + 1
                  /\ last_status' = 200

update_snapshot ==
    /\ \E snapshot_id \in SnapshotIds :
           /\ UpdateSnapshotOf(snapshot_id)
           /\ last_snapshot' =
                  IF \A i \in 1..Len(snapshots) : snapshots[i].id # snapshot_id
                  THEN "unknown"
                  ELSE IF \E i \in 1..Len(snapshots) :
                              /\ snapshots[i].id = snapshot_id
                              /\ ~StillThere(snapshots[i].root_path)
                       THEN "stale" ELSE "updated"
    /\ last_lookup' = "none"
    /\ last_path' = "none"
    /\ UNCHANGED <<anVars, cmpVars, fs, root_path, scanVars, scans, resp_pc, stream_id,
                   delivered, returned>>

\* PUT /api/snapshots/comparison/{snapshot_id}: 404 when no row has the id, 400 when
\* the row is no comparison or one of its two paths is gone, else the comparison is
\* run again and its columns overwritten
update_comparison_snapshot ==
    /\ \E snapshot_id \in SnapshotIds :
           /\ IF RowOf(snapshot_id) = 0
              THEN /\ last_status' = 404
                   /\ response' = <<>>
                   /\ UNCHANGED <<snapshots, saved>>
              ELSE LET snapshot == snapshots[RowOf(snapshot_id)]
                   IN  IF snapshot.snapshot_type # "comparison"
                       THEN /\ last_status' = 400
                            /\ response' = <<>>
                            /\ UNCHANGED <<snapshots, saved>>
                       ELSE IF \/ ~exists(fs, snapshot.root_path)
                               \/ ~exists(fs, snapshot.target_path)
                            THEN /\ last_status' = 400
                                 /\ response' = <<>>
                                 /\ UNCHANGED <<snapshots, saved>>
                            ELSE \E run \in ComparisonsOf(fs, snapshot.root_path,
                                                          snapshot.target_path, FALSE) :
                                     LET sum == run.result.summary
                                         updated ==
                                             [snapshot EXCEPT
                                                 !.comparison_json =
                                                     json_dumps(TreeDicts(run.result)),
                                                 !.comparison_summary_json =
                                                     json_dumps(SummaryDict(sum)),
                                                 !.total_files = SourceFiles(sum),
                                                 !.total_size_bytes = sum.total_source_size]
                                     IN  /\ snapshots' =
                                             [snapshots EXCEPT ![RowOf(snapshot_id)] = updated]
                                         /\ response' = deserialize_snapshot(updated)
                                         /\ saved' = Forget(saved, snapshot_id)
                                         /\ last_status' = 200
           /\ last_snapshot' =
                  IF \A i \in 1..Len(snapshots) : snapshots[i].id # snapshot_id
                  THEN "unknown"
                  ELSE IF \E i \in 1..Len(snapshots) :
                              /\ snapshots[i].id = snapshot_id
                              /\ snapshots[i].snapshot_type = "scan"
                       THEN "conflict"
                       ELSE IF \E i \in 1..Len(snapshots) :
                                   /\ snapshots[i].id = snapshot_id
                                   /\ \/ ~StillThere(snapshots[i].root_path)
                                      \/ ~StillThere(snapshots[i].target_path)
                            THEN "stale" ELSE "updated"
    /\ last_lookup' = "none"
    /\ last_path' = "none"
    /\ UNCHANGED <<anVars, cmpVars, fs, root_path, scanVars, scans, next_id, resp_pc, stream_id,
                   delivered, returned>>

\* DELETE /api/snapshots/{snapshot_id}
delete_snapshot ==
    /\ \E snapshot_id \in SnapshotIds :
           /\ IF RowOf(snapshot_id) = 0
              THEN /\ last_status' = 404
                   /\ UNCHANGED <<snapshots, saved>>
              ELSE /\ last_status' = 200
                   /\ snapshots' = SelectSeq(snapshots, LAMBDA row : row.id # snapshot_id)
                   /\ saved' = Forget(saved, snapshot_id)
           /\ last_snapshot' = IF \E i \in 1..Len(snapshots) : snapshots[i].id = snapshot_id
                               THEN "deleted" ELSE "unknown"
    /\ response' = <<>>
    /\ last_lookup' = "none"
    /\ last_path' = "none"
    /\ UNCHANGED <<anVars, cmpVars, fs, root_path, scanVars, scans, next_id, resp_pc, stream_id,
                   delivered, returned>>

\* the registry after POST /api/scan of each of the two directories
ScannedTwice ==
    LET p1 == PathOf(<<NameD>>)
        p2 == PathOf(<<NameD, NameD>>)
        r1 == scan(SnapshotFileSystem, p1)
        r2 == scan(SnapshotFileSystem, p2)
    IN  Store(Store(<<>>, 1, ScanData(1, p1, r1.files, r1.folders)),
              2, ScanData(2, p2, r2.files, r2.folders))

InitSnapshots ==
    /\ fs = SnapshotFileSystem
    /\ root_path = <<>>
    /\ mode = "none"
    /\ sc_pc = "idle"
    /\ walk = <<>>
    /\ files = <<>>
    /\ folders = EmptyFolders
    /\ file_count = 0
    /\ total_bytes = 0
    /\ emitted = <<>>
    /\ progress_queue = <<>>
    /\ scans = ScannedTwice
    /\ next_id = 2
    /\ resp_pc = "idle"
    /\ stream_id = 0
    /\ delivered = <<>>
    /\ returned = {ScannedTwice[1].scan_info, ScannedTwice[2].scan_info}
    /\ last_status = 200
    /\ snapshots = <<>>
    /\ last_lookup = "none"
    /\ last_path = "valid"
    /\ response = <<>>
    /\ saved = <<>>
    /\ last_snapshot = "none"
    /\ CmpIdle
    /\ AnIdle

NextSnapshots ==
    \/ save_snapshot
    \/ save_comparison_snapshot
    \/ get_snapshot
    \/ update_snapshot
    \/ update_comparison_snapshot
    \/ delete_snapshot
    \/ RemoveDirectory

SpecSnapshots == InitSnapshots /\ [][NextSnapshots]_vars

(***************************************************************************)
(* Claims about the registry and the streaming endpoint (SpecApi).         *)
(***************************************************************************)
\* C2: for every completed scan deposited in the registry (by POST /api/scan or by the
\* streaming endpoint) the stored summary has total_files = number of FileRecords,
\* total_folders = number of keys of the folder map, total_size_bytes = sum of size_bytes.
C2_SummaryMatchesScan ==
    \A id \in DOMAIN scans :
        /\ scans[id].scan_info.total_files = Len(scans[id].files)
        /\ scans[id].scan_info.total_folders = Cardinality(DOMAIN scans[id].folders.rec)
        /\ scans[id].scan_info.total_size_bytes = SumSizes(scans[id].files)

\* the registry holds a synchronous and a streamed scan, one of them of a root written
\* with a trailing separator and holding files
C2_Witness ==
    /\ resp_pc = "closed"
    /\ Cardinality(DOMAIN scans) = 2
    /\ \E id \in DOMAIN scans : id # stream_id
    /\ \E id \in DOMAIN scans :
          /\ scans[id].scan_info.root_path = PathOf(<<NameD>>) \o <<sep>>
          /\ Len(scans[id].files) = 2

\* the progress updates among the delivered frames, in delivery order
ProgressOf(frames) ==
    [i \in 1..Len(SelectSeq(frames, LAMBDA e : e.event_type = "progress")) |->
        SelectSeq(frames, LAMBDA e : e.event_type = "progress")[i].data]

CompletionsOf(frames) == SelectSeq(frames, LAMBDA e : e.event_type = "complete")

\* C7: in a streaming scan every progress event the scanner emitted has been delivered
\* when the completion event is delivered, and the completion event carries the scan's
\* summary.
C7_AllProgressBeforeCompletion ==
    resp_pc = "closed" =>
        /\ ProgressOf(delivered) = emitted
        /\ delivered[Len(delivered)].event_type = "complete"
        /\ delivered[Len(delivered)].scan_response = scans[stream_id].scan_info

\* C8: the delivered progress events are the emitted ones in emission order, none
\* duplicated, none after the completion event; the stream delivers at most one
\* completion event, as its last frame, and a closed stream has delivered exactly one.
C8_DeliveryOrder ==
    /\ IsPrefix(ProgressOf(delivered), emitted)
    /\ Len(CompletionsOf(delivered)) <= 1
    /\ \A i \in 1..Len(delivered) : delivered[i].event_type = "complete" => i = Len(delivered)
    /\ resp_pc = "closed" <=> Len(CompletionsOf(delivered)) = 1

\* a closed stream that delivered two progress events and then the completion event
C8_Witness ==
    /\ resp_pc = "closed"
    /\ Len(ProgressOf(delivered)) >= 2
    /\ Len(emitted) >= 2

FindingsOf(category) == SelectSeq(findings, LAMBDA f : f.category = category)

\* the passes analyze() has finished when it stands at a given point
PassesDone ==
    [created |-> 0, old_large |-> 1, cache |-> 2, duplicate_folders |-> 3,
     duplicate_files |-> 4, cold |-> 5, done |-> 6]

\* analyze() has finished at least n of its passes
AfterPass(n) == an_pc # "idle" /\ PassesDone[an_pc] >= n

AnSize(i) == an_folders.rec[an_folders.keys[i]].total_size

AnName(i) == lower(basename(an_folders.keys[i]))

\* the folders of the scan that take part in the duplicate-folder pass
DupEligible == {i \in 1..Len(an_folders.keys) : AnSize(i) > 10 * MiB}

\* folder i is visited before folder j: descending size, equal sizes in the order of
\* the folder map
Before(i, j) == AnSize(i) > AnSize(j) \/ (AnSize(i) = AnSize(j) /\ i < j)

\* the size of folder i differs from that of folder j by at most 10% of the latter
Near(i, j) ==
    10 * (IF AnSize(i) >= AnSize(j) THEN AnSize(i) - AnSize(j) ELSE AnSize(j) - AnSize(i))
        <= AnSize(j)

\* folder i opens a cluster: no cluster opened before it in its group takes it
RECURSIVE Opens(_)
Opens(i) ==
    \A j \in DupEligible :
        (AnName(j) = AnName(i) /\ Before(j, i) /\ Near(i, j)) => ~Opens(j)

\* the cluster opened by folder j
ClusterOf(j) ==
    {i \in DupEligible :
        /\ AnName(i) = AnName(j)
        /\ \/ i = j
           \/ /\ Before(j, i)
              /\ Near(i, j)
              /\ \A h \in DupEligible :
                    (AnName(h) = AnName(j) /\ Before(h, j) /\ Opens(h)) => ~Near(i, h)}

\* the paths of a set of folders in the order they are visited
InVisitOrder(S) ==
    [k \in 1..Cardinality(S) |->
        an_folders.keys[CHOOSE i \in S : Cardinality({j \in S : Before(j, i)}) = k - 1]]

\* the clusters of two or more folders
ExpectedClusters ==
    {InVisitOrder(ClusterOf(j)) :
        j \in {i \in DupEligible : Opens(i) /\ Cardinality(ClusterOf(i)) >= 2}}

SizeOfPath(path) == an_folders.rec[path].total_size

\* C13: once the duplicate-folder pass has run, the duplicate_folder_candidate
\* findings are exactly the clusters of two or more folders obtained, per group of
\* folders with the same lowercased basename and total_size > 10 MiB, by visiting the
\* group in descending size and placing each folder into the first cluster whose first
\* member's size differs from its own by at most 10% of that first member's size, else
\* opening a new cluster; so every folder is in at most one finding, every member is
\* within 10% of the finding's first path, and the paths are in descending size.
C13_DuplicateFoldersAreTheClusters ==
    AfterPass(4) =>
        LET dups == FindingsOf("duplicate_folder_candidate")
        IN  /\ {dups[n].paths : n \in 1..Len(dups)} = ExpectedClusters
            /\ Len(dups) = Cardinality(ExpectedClusters)
            /\ \A n, m \in 1..Len(dups) :
                  n # m => \A k \in 1..Len(dups[n].paths), l \in 1..Len(dups[m].paths) :
                              dups[n].paths[k] # dups[m].paths[l]
            /\ \A n \in 1..Len(dups) : \A k \in 1..Len(dups[n].paths) :
                  LET size == SizeOfPath(dups[n].paths[k])
                      first == SizeOfPath(dups[n].paths[1])
                  IN  /\ 10 * (first - size) <= first
                      /\ size <= first
                      /\ k > 1 => size <= SizeOfPath(dups[n].paths[k - 1])

\* a finding of two folders is reported while a third folder of the same name, within
\* 10% of the finding's last member but not of its first, is left out
C13_Witness ==
    /\ an_pc = "done"
    /\ \E n \in 1..Len(findings), i \in DupEligible :
          /\ findings[n].category = "duplicate_folder_candidate"
          /\ Len(findings[n].paths) = 2
          /\ lower(basename(findings[n].paths[1])) = AnName(i)
          /\ 10 * (SizeOfPath(findings[n].paths[2]) - AnSize(i)) <= SizeOfPath(findings[n].paths[2])
          /\ AnSize(i) < SizeOfPath(findings[n].paths[2])
          /\ \A m \in 1..Len(findings) :
                findings[m].category = "duplicate_folder_candidate"
                    => \A k \in 1..Len(findings[m].paths) :
                          findings[m].paths[k] # an_folders.keys[i]

RECURSIVE SumOfSizes(_)
SumOfSizes(paths) == IF paths = <<>> THEN 0 ELSE SizeOfPath(Head(paths)) + SumOfSizes(Tail(paths))

\* the record of the file at a path
FileAt(path) == CHOOSE f \in {an_files[i] : i \in 1..Len(an_files)} : f.path = path

\* C14: every duplicate finding has at least two paths; a duplicate_folder_candidate
\* reports the sum of its members' total_size less the largest of them; a
\* duplicate_file_candidate reports size * (count - 1), where its members all have
\* the same basename and the same size_bytes, which is strictly greater than 1 MiB.
C14_DuplicatesReportReclaimableBytes ==
    AfterPass(5) =>
        /\ \A n \in 1..Len(findings) :
              findings[n].category = "duplicate_folder_candidate" =>
                  LET paths == findings[n].paths
                  IN  /\ Len(paths) >= 2
                      /\ \E k \in 1..Len(paths) :
                            /\ \A l \in 1..Len(paths) : SizeOfPath(paths[l]) <= SizeOfPath(paths[k])
                            /\ findings[n].total_bytes = SumOfSizes(paths) - SizeOfPath(paths[k])
        /\ \A n \in 1..Len(findings) :
              findings[n].category = "duplicate_file_candidate" =>
                  LET paths == findings[n].paths
                      size == FileAt(paths[1]).size_bytes
                  IN  /\ Len(paths) >= 2
                      /\ size > MiB
                      /\ \A k \in 1..Len(paths) :
                            /\ basename(paths[k]) = basename(paths[1])
                            /\ FileAt(paths[k]).size_bytes = size
                      /\ findings[n].total_bytes = size * (Len(paths) - 1)

\* analyze() has reported a cluster of three folders of two sizes and a pair of files
C14_Witness ==
    /\ an_pc = "done"
    /\ \E n \in 1..Len(findings) :
          /\ findings[n].category = "duplicate_folder_candidate"
          /\ Len(findings[n].paths) = 3
          /\ SizeOfPath(findings[n].paths[3]) < SizeOfPath(findings[n].paths[1])
    /\ \E n \in 1..Len(findings) :
          /\ findings[n].category = "duplicate_file_candidate"
          /\ Len(findings[n].paths) = 2

\* the pass that emits a category
PassOf(category) ==
    CASE category = "large_folder" -> 1
      [] category \in {"old_large_folder", "active_large_folder"} -> 2
      [] category = "cache_candidate" -> 3
      [] category = "duplicate_folder_candidate" -> 4
      [] category = "duplicate_file_candidate" -> 5
      [] category = "cold_archive_candidate" -> 6

\* C15: the findings of one analyze() invocation carry the identifiers finding-1,
\* finding-2, ..., finding-N in the order they were emitted, without gap or repeat,
\* and the passes emit in the order large_folder, old/active large folder,
\* cache_candidate, duplicate_folder_candidate, duplicate_file_candidate,
\* cold_archive_candidate.
C15_IdentifiersFollowEmission ==
    an_pc # "idle" =>
        /\ \A n \in 1..Len(findings) : findings[n].id = <<"finding-", n>>
        /\ \A n, m \in 1..Len(findings) :
              n < m => PassOf(findings[n].category) <= PassOf(findings[m].category)
        /\ \A n \in 1..Len(findings) : PassOf(findings[n].category) <= PassesDone[an_pc]

\* analyze() has returned findings of a first, a middle and the last pass
C15_Witness ==
    /\ an_pc = "done"
    /\ Len(findings) >= 5
    /\ \E n \in 1..Len(findings) : findings[n].category = "large_folder"
    /\ \E n \in 1..Len(findings) : findings[n].category = "cache_candidate"
    /\ \E n \in 1..Len(findings) : findings[n].category = "cold_archive_candidate"

\* the folders that received a finding of a category
FoldersWith(category) ==
    {FindingsOf(category)[n].paths[1] : n \in 1..Len(FindingsOf(category))}

\* C16: analyze() emits at most TOP_N_LARGE (20) large_folder findings, in descending
\* total_size, each of a folder of at least 1 GiB, and no folder left without a
\* large_folder finding is larger than a folder that received one.
C16_LargestFoldersReported ==
    AfterPass(1) =>
        LET large == FindingsOf("large_folder")
        IN  /\ Len(large) <= 20
            /\ \A n \in 1..Len(large) :
                  /\ Len(large[n].paths) = 1
                  /\ large[n].total_bytes = SizeOfPath(large[n].paths[1])
                  /\ large[n].total_bytes >= GiB
                  /\ n > 1 => large[n].total_bytes <= large[n - 1].total_bytes
            /\ \A n, m \in 1..Len(large) : n # m => large[n].paths # large[m].paths
            /\ \A i \in 1..Len(an_folders.keys) :
                  an_folders.keys[i] \notin FoldersWith("large_folder") =>
                      \A n \in 1..Len(large) : AnSize(i) <= large[n].total_bytes

\* twenty folders of more than one size are reported and a folder of at least 1 GiB
\* is left without a finding
C16_Witness ==
    /\ an_pc = "done"
    /\ Len(FindingsOf("large_folder")) = 20
    /\ FindingsOf("large_folder")[20].total_bytes < FindingsOf("large_folder")[2].total_bytes
    /\ \E i \in 1..Len(an_folders.keys) :
          /\ AnSize(i) >= GiB
          /\ an_folders.keys[i] \notin FoldersWith("large_folder")

\* the cache names, lowercased
CacheNames ==
    {<<"n","o","d","e","_","m","o","d","u","l","e","s">>,
     <<".","c","a","c","h","e">>,
     <<"_","_","p","y","c","a","c","h","e","_","_">>,
     <<"d","i","s","t">>,
     <<"b","u","i","l","d">>,
     <<"o","u","t">>,
     <<"t","m","p">>,
     <<"t","e","m","p">>,
     <<".","t","m","p">>,
     <<".","t","e","m","p">>,
     <<"c","a","c","h","e">>,
     <<".","g","i","t">>,
     <<".","v","e","n","v">>,
     <<"v","e","n","v">>,
     <<"e","n","v">>,
     <<".","e","n","v">>,
     <<".","n","e","x","t">>,
     <<".","n","u","x","t">>,
     <<"t","a","r","g","e","t">>,
     <<"b","i","n">>,
     <<"o","b","j">>}

\* the cache-folder test: the lowercased basename is a cache name, or the lowercased
\* path contains \temp\ or \tmp\
CacheLike(path) ==
    \/ lower(basename(path)) \in CacheNames
    \/ \E i \in 1..(Len(path) - 5) :
          lower(SubSeq(path, i, i + 5)) = <<"\\", "t", "e", "m", "p", "\\">>
    \/ \E i \in 1..(Len(path) - 4) :
          lower(SubSeq(path, i, i + 4)) = <<"\\", "t", "m", "p", "\\">>

RECURSIVE SumField(_, _)
SumField(list, field) ==
    IF list = <<>> THEN 0 ELSE Head(list)[field] + SumField(Tail(list), field)

\* the extension a file is counted under
ExtensionLabel(f) == IF f.extension = <<>> THEN NoExtension ELSE f.extension

\* C18: get_extension_summary() returns one entry per distinct extension among the
\* scan's files, the empty extension reported as "(no extension)", sorted by
\* total_bytes in non-increasing order; the file_count values sum to the number of
\* files and the total_bytes values sum to the sum of all file sizes.
C18_ExtensionSummaryAccountsForFiles ==
    ext_called =>
        /\ {ext_summary[n].extension : n \in 1..Len(ext_summary)}
               = {ExtensionLabel(an_files[i]) : i \in 1..Len(an_files)}
        /\ \A n, m \in 1..Len(ext_summary) :
              n # m => ext_summary[n].extension # ext_summary[m].extension
        /\ \A n \in 2..Len(ext_summary) :
              ext_summary[n].total_bytes <= ext_summary[n - 1].total_bytes
        /\ SumField(ext_summary, "file_count") = Len(an_files)
        /\ SumField(ext_summary, "total_bytes") = SumField(an_files, "size_bytes")

\* the summary of a scan whose first file has no extension and is smaller than a later
\* file with one
C18_Witness ==
    /\ ext_called
    /\ Len(ext_summary) = 2
    /\ an_files[1].extension = <<>>
    /\ ext_summary[2].extension = NoExtension
    /\ ext_summary[2].total_bytes < ext_summary[1].total_bytes

(***************************************************************************)
(* The lookups by scan_id.                                                 *)
(***************************************************************************)
\* C20: GET /api/findings, GET /api/extensions-summary and POST /api/snapshots answer
\* a scan_id that the registry does not hold with 404 and leave the registry and the
\* snapshot store as they were; a scan_id that the registry holds is never answered
\* with 404.
C20_UnknownScanIdIsNotFound ==
    /\ [](last_lookup = "miss" => last_status = 404)
    /\ [](last_lookup = "hit" => last_status # 404)
    /\ [][last_lookup' = "miss" => (scans' = scans /\ snapshots' = snapshots)]_vars

\* an unknown scan_id was answered while the registry held a scan and the store a snapshot
C20_Witness ==
    /\ last_lookup = "miss"
    /\ last_status = 404
    /\ scans # <<>>
    /\ snapshots # <<>>

(***************************************************************************)
(* The requests that validate a path (SpecPaths).                          *)
(***************************************************************************)
\* a step of the scan task or of the generator of the streaming endpoint, which run
\* between the requests
TaskStep ==
    \/ ScanAsyncStart
    \/ ScanAsyncVisit
    \/ ScanAsyncFinish
    \/ RespResume
    \/ RespGet
    \/ RespFinish

\* C21: POST /api/scan, GET /api/scan/stream and POST /api/compare answer a path that
\* does not exist or is not a directory with 400, and the step that answers it walks
\* nothing (the scanner and the comparator stay as they were), emits no progress and
\* no completion event, and leaves the scan registry as it was.
C21_InvalidPathIsRejected ==
    /\ [](last_path = "invalid" => last_status = 400)
    /\ [][(last_path' = "invalid" /\ ~TaskStep)
            => UNCHANGED <<root_path, scanVars, cmpVars, scans, next_id, resp_pc, stream_id,
                           delivered, returned>>]_vars

\* an invalid path was answered while a streamed scan had emitted progress, the
\* registry held a scan and a comparison had been answered
C21_Witness ==
    /\ last_path = "invalid"
    /\ last_status = 400
    /\ resp_pc \in {"get", "check"}
    /\ emitted # <<>>
    /\ scans # <<>> \/ cmp_pc = "done"

(***************************************************************************)
(* Claims about the snapshot endpoints (SpecSnapshots).                    *)
(***************************************************************************)
\* C22: a snapshot loaded by the id its save returned, and neither updated nor deleted
\* since, comes back with the findings, extensions and scan info that were saved, and
\* a comparison snapshot also with the comparison tree and the comparison summary that
\* were saved, empty lists and all-zero counters included
C22_SaveThenLoadRoundTrip ==
    (last_snapshot = "loaded" /\ response.id \in DOMAIN saved) =>
        /\ response.findings = saved[response.id].findings
        /\ response.extensions = saved[response.id].extensions
        /\ response.scan_info = saved[response.id].scan_info
        /\ response.snapshot_type = "comparison" =>
               /\ {"comparison", "comparison_summary"} \subseteq DOMAIN response
               /\ response.comparison = saved[response.id].comparison
               /\ response.comparison_summary = saved[response.id].comparison_summary

\* a comparison snapshot with an empty tree and an all-zero summary has been saved and
\* is loaded
C22_Witness ==
    /\ last_snapshot = "loaded"
    /\ response.id \in DOMAIN saved
    /\ response.snapshot_type = "comparison"
    /\ saved[response.id].comparison = PyList(<<>>)
    /\ saved[response.id].comparison_summary = SummaryDict(ComparisonSummary)
    /\ saved[response.id].findings = PyList(<<>>)

\* C23: a snapshot request that fails changes no row: load, update, comparison-update
\* or delete of an id no row has is answered 404; comparison-update of a row that is
\* no comparison is answered 400; update or comparison-update of a row whose stored
\* root, source or target path is gone is answered 400; and the step that answers so
\* adds, removes and modifies nothing in the store
C23_FailedSnapshotRequestChangesNothing ==
    /\ [](last_snapshot = "unknown" => last_status = 404)
    /\ [](last_snapshot \in {"conflict", "stale"} => last_status = 400)
    /\ [][last_snapshot' \in {"unknown", "conflict", "stale"} => snapshots' = snapshots]_vars

\* a comparison snapshot is held whose target directory has been removed, and its
\* comparison-update has just been refused
C23_Witness ==
    /\ last_snapshot = "stale"
    /\ last_status = 400
    /\ snapshots # <<>>
    /\ snapshots[1].snapshot_type = "comparison"
    /\ StillThere(snapshots[1].root_path)
    /\ ~StillThere(snapshots[1].target_path)

(***************************************************************************)
(* Claims about the progress updates of a streaming scan (SpecProgress).   *)
(***************************************************************************)
\* C24: during a streaming scan, for every positive multiple of 50 the running file
\* counter has reached an update with that count has been emitted, and every update
\* emitted has progress_percent = min(95, 20 + 5 * depth), depth the separators of the
\* current directory beyond those of the root, so none reports 100
C24_ProgressAtEveryFiftyFiles ==
    mode = "async" =>
        /\ \A n \in 1..file_count :
               n % 50 = 0 => \E i \in 1..Len(emitted) : emitted[i].files_scanned = n
        /\ \A i \in 1..Len(emitted) :
               LET depth == count(emitted[i].current_path, sep) - count(root_path, sep)
               IN  /\ emitted[i].progress_percent =
                          (IF 20 + 5 * depth < 95 THEN 20 + 5 * depth ELSE 95)
                   /\ emitted[i].progress_percent # 100

(***************************************************************************)
(* A further claim about the comparator (SpecCompare).                     *)
(***************************************************************************)
\* C25: after compare(), an item reported identical is an entry of both trees and of
\* one type in both: a path that is a regular file in one tree and a directory in the
\* other is never reported identical
C25_IdenticalImpliesSameType ==
    cmp_pc = "done" =>
        \A p \in DOMAIN items_by_path :
            items_by_path[p].status = "identical" =>
                /\ p \in DOMAIN source_index \cap DOMAIN target_index
                /\ source_index[p].is_dir = target_index[p].is_dir

(***************************************************************************)
(* A further claim about the scanner (SpecScan).                           *)
(***************************************************************************)
\* C26: on one tree with one outcome of every stat, scan_async returns the file list
\* and the folder map that scan returns, whichever of its updates it emitted
C26_AsyncScanEqualsSyncScan ==
    (mode = "async" /\ sc_pc = "done") =>
        /\ files = scan(fs, root_path).files
        /\ folders = scan(fs, root_path).folders

\* scan_async has returned from a tree of two directories with a file in the lower
\* one, having emitted for one directory and not for another
C26_Witness ==
    /\ mode = "async"
    /\ sc_pc = "done"
    /\ Len(folders.keys) >= 2
    /\ \E i \in 1..Len(files) : files[i].parent_dir # root_path
    /\ emitted # <<>>
    /\ Len(emitted) < Len(folders.keys)
====
